---- MODULE Spec2Model ----
(***************************************************************************)
(* REDLINE core: the indentation-sensitive lexer (lexer.rs), the           *)
(* recursive-descent parser (parser.rs) and the AST they build (ast.rs).   *)
(*                                                                         *)
(* A source text is a sequence of characters; a character is a one-element *)
(* string, except the two non-ASCII characters the model carries, which    *)
(* are named by their code point.  Offsets (pos, lookahead, i, last_pos)   *)
(* are 0-based as in the source; a sequence s is read at s[offset + 1].    *)
(***************************************************************************)
EXTENDS Integers, Sequences, FiniteSets, TLC

VARIABLES
    gen,           \* the shape the source text was drawn from (Init only)
    input,         \* Lexer.input
    pos,           \* Lexer.pos
    line,          \* Lexer.line
    column,        \* Lexer.column
    tokens,        \* tokenize: let mut tokens
    indent_stack,  \* tokenize: let mut indent_stack
    pc,            \* where main is: "read", "tokenize", "parse", "emit", "exit"
    readres,       \* what fs::read_to_string returned: "none", "ok", "err"
    lexres,        \* what tokenize returned: "none", "ok", "err", "panic"
    lexerr,        \* the LexerError returned (NoErr when none)
    program,       \* what Parser::parse returned (NoResult before)
    emitres,       \* what the serializer or generate returned: "none", "ok", "err"
    exit_code      \* the process's exit code (-1 while running)

vars == <<gen, input, pos, line, column, tokens, indent_stack, pc, readres,
          lexres, lexerr, program, emitres, exit_code>>

----------------------------------------------------------------------------
(* Characters *)

SP == " "
TAB == "\t"
NL == "\n"
CR == "\r"
QUOTE == "\""
BSL == "\\"
\* U+00E9 (e with acute): alphabetic, two bytes in UTF-8.
EACUTE == "U+00E9"
\* U+00B2 (superscript two): numeric (category No), not a decimal digit, two bytes.
SUP2 == "U+00B2"

Lower == {"a","b","c","d","e","f","g","h","i","j","k","l","m","n","o","p",
          "q","r","s","t","u","v","w","x","y","z"}
Upper == {"A","B","C","D","E","F","G","H","I","J","K","L","M","N","O","P",
          "Q","R","S","T","U","V","W","X","Y","Z"}
AsciiDigit == {"0","1","2","3","4","5","6","7","8","9"}

is_alphabetic(c) == c \in Lower \cup Upper \cup {EACUTE}
is_numeric(c) == c \in AsciiDigit \cup {SUP2}
is_alphanumeric(c) == is_alphabetic(c) \/ is_numeric(c)

\* The number of bytes of the character in a Rust String (UTF-8).
len_utf8(c) == IF c \in {EACUTE, SUP2} THEN 2 ELSE 1

Last(s) == s[Len(s)]
Front(s) == SubSeq(s, 1, Len(s) - 1)

----------------------------------------------------------------------------
(* Tokens *)

\* A TokenType: its variant k and its payload v (a character sequence;
\* empty for the variants that carry nothing).
TT(k) == [k |-> k, v |-> <<>>]
TTv(k, v) == [k |-> k, v |-> v]

Token(token_type, l, c) == [token_type |-> token_type, line |-> l, column |-> c]

NoErr == [message |-> "", line |-> 0, column |-> 0]
LexerError(m, l, c) == [message |-> m, line |-> l, column |-> c]

UnindentMsg == "Unindent does not match any outer indentation level"

----------------------------------------------------------------------------
(* Lexer: the state of one tokenize call is the record                     *)
(* [input, pos, line, column, tokens, indent_stack, st, err], st being     *)
(* "loop" while the main loop runs, "ok" / "err" once tokenize returned,   *)
(* and "panic" when an unwrap or an index failed.                          *)

LexerNew(src) ==
    [input |-> src, pos |-> 0, line |-> 1, column |-> 1,
     tokens |-> <<>>, indent_stack |-> <<0>>, st |-> "loop", err |-> NoErr]

advance(L) ==
    IF L.pos < Len(L.input)
    THEN IF L.input[L.pos + 1] = NL
         THEN [L EXCEPT !.line = @ + 1, !.column = 1, !.pos = @ + 1]
         ELSE [L EXCEPT !.column = @ + 1, !.pos = @ + 1]
    ELSE L

At(L) == L.input[L.pos + 1]
NextIs(L, c) == L.pos + 1 < Len(L.input) /\ L.input[L.pos + 2] = c
Emit(L, tt, l, c) == [L EXCEPT !.tokens = Append(@, Token(tt, l, c))]
Fail(L, m, l, c) == [L EXCEPT !.st = "err", !.err = LexerError(m, l, c)]
Panic(L) == [L EXCEPT !.st = "panic"]

\* lexer.rs 82-96: the look-ahead over the leading whitespace of a line.
RECURSIVE IndentScan(_, _, _)
IndentScan(src, lookahead, spaces) ==
    IF lookahead >= Len(src)
    THEN [spaces |-> spaces, lookahead |-> lookahead, is_empty_line |-> FALSE]
    ELSE LET c == src[lookahead + 1] IN
         IF c = SP THEN IndentScan(src, lookahead + 1, spaces + 1)
         ELSE IF c = TAB THEN IndentScan(src, lookahead + 1, spaces + 4)
         ELSE IF c \in {NL, CR}
         THEN [spaces |-> spaces, lookahead |-> lookahead, is_empty_line |-> TRUE]
         ELSE [spaces |-> spaces, lookahead |-> lookahead, is_empty_line |-> FALSE]

\* The loop condition of lexer.rs 104 with the comparison turned around.
PopWhile_LessEq(spaces, top) == spaces <= top

\* lexer.rs 104: while spaces < *indent_stack.last().unwrap()
PopWhile(spaces, top) == spaces < top

\* lexer.rs 104-107: pop and emit Dedent while the line is narrower than the top.
RECURSIVE PopDedents(_, _)
PopDedents(L, spaces) ==
    IF Len(L.indent_stack) = 0 THEN Panic(L)
    ELSE IF PopWhile(spaces, Last(L.indent_stack))
    THEN PopDedents(
             Emit([L EXCEPT !.indent_stack = Front(@)], TT("Dedent"), L.line, L.column),
             spaces)
    ELSE L

\* The check of lexer.rs 108 left out.
UnindentMismatch_Never(spaces, stack) == FALSE

\* lexer.rs 108: spaces != *indent_stack.last().unwrap()
UnindentMismatch(spaces, stack) == spaces # Last(stack)

\* The blank-line test of lexer.rs 98 ignored: every line is measured.
SkipLayout_Never(is_empty_line) == FALSE

\* lexer.rs 98: if !is_empty_line { ... }
SkipLayout(is_empty_line) == is_empty_line

\* lexer.rs 81-115: the line-start step.
LineStart(L) ==
    IF L.column # 1 THEN L
    ELSE LET sc == IndentScan(L.input, L.pos, 0) IN
         IF SkipLayout(sc.is_empty_line) THEN L
         ELSE IF Len(L.indent_stack) = 0 THEN Panic(L)
         ELSE LET last_indent == Last(L.indent_stack)
                  moved(M) == [M EXCEPT !.pos = sc.lookahead, !.column = sc.spaces + 1]
              IN IF sc.spaces > last_indent
                 THEN moved(Emit([L EXCEPT !.indent_stack = Append(@, sc.spaces)],
                                 TT("Indent"), L.line, L.column))
                 ELSE IF sc.spaces < last_indent
                 THEN LET P == PopDedents(L, sc.spaces) IN
                      IF P.st = "panic" THEN P
                      ELSE IF Len(P.indent_stack) = 0 THEN Panic(P)
                      ELSE IF UnindentMismatch(sc.spaces, P.indent_stack)
                      THEN Fail(P, UnindentMsg, L.line, L.column)
                      ELSE moved(P)
                 ELSE moved(L)

----------------------------------------------------------------------------
(* Lexer: token scanning (lexer.rs 119-282) *)

\* lexer.rs 179-183 / 205-209: the character an escape stands for.
Unescape(c) ==
    IF c = "n" THEN NL
    ELSE IF c = "t" THEN TAB
    ELSE IF c = "r" THEN CR
    ELSE c

\* lexer.rs 174-187 / 200-213: the body of a string or f-string literal, up to
\* the closing quote or the end of the input.
RECURSIVE StrRun(_, _)
StrRun(L, s) ==
    IF L.pos >= Len(L.input) THEN [L |-> L, s |-> s]
    ELSE IF At(L) = QUOTE THEN [L |-> L, s |-> s]
    ELSE IF At(L) = BSL
    THEN LET L1 == advance(L) IN
         IF L1.pos < Len(L1.input)
         THEN StrRun(advance(L1), Append(s, Unescape(At(L1))))
         ELSE StrRun(advance(L1), s)
    ELSE StrRun(advance(L), Append(s, At(L)))

\* lexer.rs 171-194 (kind "Str") and 197-219 (kind "FString"); L is past the
\* opening quote.
StringLiteral(L, kind, what, start_col) ==
    LET r == StrRun(L, <<>>) IN
    IF r.L.pos < Len(r.L.input) /\ At(r.L) = QUOTE
    THEN advance(Emit(r.L, TTv(kind, r.s), r.L.line, start_col))
    ELSE Fail(r.L, what, r.L.line, start_col)

\* lexer.rs 223-226 / 238-241: the maximal run of alphanumerics and underscores.
RECURSIVE IdentRun(_, _)
IdentRun(L, ident) ==
    IF L.pos < Len(L.input) /\ (is_alphanumeric(At(L)) \/ At(L) = "_")
    THEN IdentRun(advance(L), Append(ident, At(L)))
    ELSE [L |-> L, ident |-> ident]

Keywords ==
    { <<"var", <<"v","a","r">> >>, <<"val", <<"v","a","l">> >>,
      <<"def", <<"d","e","f">> >>, <<"if", <<"i","f">> >>,
      <<"else", <<"e","l","s","e">> >>, <<"pub", <<"p","u","b">> >>,
      <<"return", <<"r","e","t","u","r","n">> >>,
      <<"print", <<"p","r","i","n","t">> >>,
      <<"true", <<"t","r","u","e">> >>, <<"false", <<"f","a","l","s","e">> >>,
      <<"while", <<"w","h","i","l","e">> >>, <<"for", <<"f","o","r">> >>,
      <<"in", <<"i","n">> >>, <<"import", <<"i","m","p","o","r","t">> >>,
      <<"class", <<"c","l","a","s","s">> >>, <<"this", <<"t","h","i","s">> >>,
      <<"try", <<"t","r","y">> >>, <<"catch", <<"c","a","t","c","h">> >>,
      <<"new", <<"n","e","w">> >>, <<"break", <<"b","r","e","a","k">> >>,
      <<"continue", <<"c","o","n","t","i","n","u","e">> >> }

TypeNames ==
    { <<"i","n","t">>, <<"f","l","o","a","t">>, <<"s","t","r","i","n","g">>,
      <<"b","o","o","l">>, <<"l","i","s","t">>, <<"v","o","i","d">>,
      <<"d","i","c","t">> }

\* TokenType's variant for a keyword (lexer.rs 6).
KeywordVariant(name) ==
    CASE name = "var" -> "Var" [] name = "val" -> "Val" [] name = "def" -> "Def"
      [] name = "if" -> "If" [] name = "else" -> "Else" [] name = "pub" -> "Pub"
      [] name = "return" -> "Return" [] name = "print" -> "Print"
      [] name = "true" -> "True" [] name = "false" -> "False"
      [] name = "while" -> "While" [] name = "for" -> "For" [] name = "in" -> "In"
      [] name = "import" -> "Import" [] name = "class" -> "Class"
      [] name = "this" -> "This" [] name = "try" -> "Try" [] name = "catch" -> "Catch"
      [] name = "new" -> "New" [] name = "break" -> "Break"
      [] name = "continue" -> "Continue"

\* lexer.rs 242-253: the general identifier rule.
ClassifyIdent(ident) ==
    IF \E kw \in Keywords : kw[2] = ident
    THEN TT(KeywordVariant((CHOOSE kw \in Keywords : kw[2] = ident)[1]))
    ELSE IF ident \in TypeNames THEN TTv("Type", ident)
    ELSE TTv("Ident", ident)

\* lexer.rs 227-232: the rule for a lexeme that starts with f.
ClassifyIdentF(ident) ==
    IF ident = <<"f","a","l","s","e">> THEN TT("False")
    ELSE IF ident = <<"f","o","r">> THEN TT("For")
    ELSE IF ident = <<"f","l","o","a","t">> THEN TTv("Type", ident)
    ELSE TTv("Ident", ident)

RECURSIVE StripZeros(_)
StripZeros(ds) ==
    IF Len(ds) > 1 /\ ds[1] = "0" THEN StripZeros(Tail(ds)) ELSE ds

DigitVal(c) ==
    CASE c = "0" -> 0 [] c = "1" -> 1 [] c = "2" -> 2 [] c = "3" -> 3
      [] c = "4" -> 4 [] c = "5" -> 5 [] c = "6" -> 6 [] c = "7" -> 7
      [] c = "8" -> 8 [] c = "9" -> 9

\* Whether the decimal numeral a (no leading zeros) is at most the numeral b.
RECURSIVE NumeralLeq(_, _)
NumeralLeq(a, b) ==
    IF Len(a) # Len(b) THEN Len(a) < Len(b)
    ELSE IF Len(a) = 0 THEN TRUE
    ELSE IF a[1] # b[1] THEN DigitVal(a[1]) < DigitVal(b[1])
    ELSE NumeralLeq(Tail(a), Tail(b))

\* i64::MAX, 9223372036854775807, as a numeral.
I64Max == <<"9","2","2","3","3","7","2","0","3","6","8","5","4","7","7","5","8","0","7">>

\* A parse that takes every numeral, however long.
ParseI64_Unchecked(num) ==
    IF num = <<>> \/ \E k \in 1..Len(num) : num[k] \notin AsciiDigit
    THEN [ok |-> FALSE, v |-> <<>>]
    ELSE [ok |-> TRUE, v |-> StripZeros(num)]

\* lexer.rs 274: num.parse::<i64>() of a lexeme of numeric characters: the value
\* as a numeral without leading zeros, or an error.
ParseI64(num) ==
    IF num = <<>> \/ \E k \in 1..Len(num) : num[k] \notin AsciiDigit
    THEN [ok |-> FALSE, v |-> <<>>]
    ELSE LET n == StripZeros(num) IN
         IF NumeralLeq(n, I64Max) THEN [ok |-> TRUE, v |-> n]
         ELSE [ok |-> FALSE, v |-> <<>>]

\* lexer.rs 269: num.parse::<f64>() of a lexeme of numeric characters with one
\* '.': the lexeme with the leading zeros of its integer part dropped, or an
\* error when a character is no ASCII digit.
ParseF64(num) ==
    IF \E k \in 1..Len(num) : num[k] \notin AsciiDigit \cup {"."}
    THEN [ok |-> FALSE, v |-> <<>>]
    ELSE LET dot == CHOOSE k \in 1..Len(num) : num[k] = "." IN
         [ok |-> TRUE,
          v |-> StripZeros(SubSeq(num, 1, dot - 1)) \o SubSeq(num, dot, Len(num))]

\* lexer.rs 259-267: the run of numeric characters and dots.
RECURSIVE NumRun(_, _, _)
NumRun(L, num, is_float) ==
    IF L.pos < Len(L.input) /\ (is_numeric(At(L)) \/ At(L) = ".")
    THEN IF At(L) = "."
         THEN IF NextIs(L, ".") THEN [L |-> L, num |-> num, is_float |-> is_float]
              ELSE IF is_float
              THEN [L |-> Fail(L, "Invalid number: multiple decimal points",
                               L.line, L.column),
                    num |-> num, is_float |-> is_float]
              ELSE NumRun(advance(L), Append(num, At(L)), TRUE)
         ELSE NumRun(advance(L), Append(num, At(L)), is_float)
    ELSE [L |-> L, num |-> num, is_float |-> is_float]

\* lexer.rs 256-280.
Number(L, start_col) ==
    LET r == NumRun(L, <<>>, FALSE) IN
    IF r.L.st = "err" THEN r.L
    ELSE IF r.is_float
    THEN LET f == ParseF64(r.num) IN
         IF f.ok THEN Emit(r.L, TTv("Float", f.v), r.L.line, start_col)
         ELSE Fail(r.L, "Invalid float", r.L.line, start_col)
    ELSE LET n == ParseI64(r.num) IN
         IF n.ok THEN Emit(r.L, TTv("Int", n.v), r.L.line, start_col)
         ELSE Fail(r.L, "Invalid integer", r.L.line, start_col)

\* The comment arm without its loop: nothing is consumed.
Comment_Stay(L) == L

\* lexer.rs 170: a comment runs to the end of the line.
RECURSIVE Comment(_)
Comment(L) ==
    IF L.pos < Len(L.input) /\ At(L) # NL THEN Comment(advance(L)) ELSE L

Punct ==
    { <<":", "Colon">>, <<"(", "LParen">>, <<")", "RParen">>, <<"[", "LBracket">>,
      <<"]", "RBracket">>, <<"{", "LBrace">>, <<"}", "RBrace">>, <<",", "Comma">> }

\* lexer.rs 119-282: the match on the current character.
ScanToken(L) ==
    LET start_col == L.column
        c == At(L)
        one(tt) == advance(Emit(L, tt, L.line, start_col))
        two(tt) == advance(advance(Emit(L, tt, L.line, start_col)))
    IN
    IF c \in {SP, CR, TAB} THEN advance(L)
    ELSE IF c = NL THEN one(TT("Newline"))
    ELSE IF \E p \in Punct : p[1] = c
    THEN one(TT((CHOOSE p \in Punct : p[1] = c)[2]))
    ELSE IF c = "="
    THEN IF NextIs(L, "=") THEN two(TTv("Op", <<"=", "=">>)) ELSE one(TT("Assign"))
    ELSE IF c = "."
    THEN IF NextIs(L, ".") THEN two(TT("Range")) ELSE one(TT("Dot"))
    ELSE IF c \in {">", "<", "!"}
    THEN IF NextIs(L, "=") THEN two(TTv("Op", <<c, "=">>)) ELSE one(TTv("Op", <<c>>))
    ELSE IF c \in {"+", "*", "/"} THEN one(TTv("Op", <<c>>))
    ELSE IF c = "-"
    THEN IF NextIs(L, ">") THEN two(TT("Arrow")) ELSE one(TTv("Op", <<"-">>))
    ELSE IF c = "#" THEN Comment(L)
    ELSE IF c = QUOTE
    THEN StringLiteral(advance(L), "Str", "Unterminated string literal", start_col)
    ELSE IF c = "f"
    THEN IF NextIs(L, QUOTE)
         THEN StringLiteral(advance(advance(L)), "FString",
                            "Unterminated f-string literal", start_col)
         ELSE LET r == IdentRun(L, <<>>) IN
              Emit(r.L, ClassifyIdentF(r.ident), r.L.line, start_col)
    ELSE IF is_alphabetic(c)
    THEN LET r == IdentRun(L, <<>>) IN
         Emit(r.L, ClassifyIdent(r.ident), r.L.line, start_col)
    ELSE IF is_numeric(c) THEN Number(L, start_col)
    ELSE Fail(L, "Unknown character", L.line, start_col)

\* lexer.rs 80-283: one iteration of the main loop (L.pos < len holds).  "brk"
\* is the break of line 117.
LexIter(L) ==
    LET L1 == LineStart(L) IN
    IF L1.st # "loop" THEN L1
    ELSE IF L1.pos >= Len(L1.input) THEN [L1 EXCEPT !.st = "brk"]
    ELSE ScanToken(L1)

\* The loop of lexer.rs 285-288 taken as an if: one block is closed.
CloseBlocks_Once(L) ==
    IF Len(L.indent_stack) > 1
    THEN Emit([L EXCEPT !.indent_stack = Front(@)], TT("Dedent"), L.line, L.column)
    ELSE L

\* lexer.rs 285-288: one Dedent for every level above the base.
RECURSIVE CloseBlocks(_)
CloseBlocks(L) ==
    IF Len(L.indent_stack) > 1
    THEN CloseBlocks(Emit([L EXCEPT !.indent_stack = Front(@)],
                          TT("Dedent"), L.line, L.column))
    ELSE L

\* The end of tokenize without its EOF token.
LexFinish_NoEOF(L) == [CloseBlocks(L) EXCEPT !.st = "ok"]

\* lexer.rs 285-290: after the loop.
LexFinish(L) ==
    [Emit(CloseBlocks(L), TT("EOF"), L.line, L.column) EXCEPT !.st = "ok"]

\* lexer.rs 76-291: tokenize, run to its return.
RECURSIVE RunLexer(_)
RunLexer(L) ==
    IF L.st \in {"err", "panic", "ok"} THEN L
    ELSE IF L.st = "brk" \/ L.pos >= Len(L.input) THEN LexFinish(L)
    ELSE RunLexer(LexIter(L))

tokenize(src) == RunLexer(LexerNew(src))

----------------------------------------------------------------------------
(* AST (ast.rs).  A string payload is a character sequence; an Int or      *)
(* Float payload is the numeral the lexer produced.                        *)

Literal(t, v) == [e |-> "Literal", lit |-> [t |-> t, v |-> v]]
Identifier(name) == [e |-> "Identifier", name |-> name]
BinaryOp(op, left, right) == [e |-> "BinaryOp", op |-> op, left |-> left, right |-> right]
Call(callee, args) == [e |-> "Call", callee |-> callee, args |-> args]
Index(list, index) == [e |-> "Index", list |-> list, index |-> index]
Get(object, name) == [e |-> "Get", object |-> object, name |-> name]
This == [e |-> "This"]
New(class_name, args) == [e |-> "New", class_name |-> class_name, args |-> args]
ListLiteral(elements) == [e |-> "ListLiteral", elements |-> elements]
DictLiteral(entries) == [e |-> "DictLiteral", entries |-> entries]

Program(statements) == [statements |-> statements]

----------------------------------------------------------------------------
(* Parser (parser.rs).  A parsing function takes the token slice and the   *)
(* cursor and returns [k, v, p, err]: k is "ok" (v the value, p the cursor *)
(* after it), "err" (err the ParserError) or "panic".  A ParserError's     *)
(* message is the fixed text of the source, without the formatted tokens.  *)

Ok(v, p) == [k |-> "ok", v |-> v, p |-> p, err |-> NoErr]
PanicR(p) == [k |-> "panic", v |-> <<>>, p |-> p, err |-> NoErr]
ErrAt(m, l, c, p) ==
    [k |-> "err", v |-> <<>>, p |-> p, err |-> [message |-> m, line |-> l, column |-> c]]

\* parser.rs 27-29
current_token(toks, p) ==
    IF p < Len(toks) THEN toks[p + 1] ELSE Token(TT("EOF"), 0, 0)

\* parser.rs 31-35: the cursor after advance.
padvance(toks, p) == IF p < Len(toks) THEN p + 1 ELSE p

kind(toks, p) == current_token(toks, p).token_type.k
payload(toks, p) == current_token(toks, p).token_type.v

\* parser.rs 37-44: whether consume_if(k) consumes, and the cursor after it.
consumes(toks, p, k) == kind(toks, p) = k
consume_if(toks, p, k) == IF consumes(toks, p, k) THEN padvance(toks, p) ELSE p

\* parser.rs 46-49
error(toks, p, m) ==
    ErrAt(m, current_token(toks, p).line, current_token(toks, p).column, p)

\* expect without its Err arm: a missing token is passed over in silence.
expect_Lenient(toks, p, k, m) ==
    IF kind(toks, p) = k THEN Ok(<<>>, padvance(toks, p)) ELSE Ok(<<>>, p)

\* parser.rs 51-58
expect(toks, p, k, m) ==
    IF kind(toks, p) = k THEN Ok(<<>>, padvance(toks, p)) ELSE error(toks, p, m)

\* The table of parser.rs 290-292 with the levels of the arithmetic operators
\* exchanged.
get_precedence_Swapped(token_type) ==
    IF token_type.k = "Dot" THEN 7
    ELSE IF token_type.k = "Op"
    THEN IF token_type.v \in {<<"*">>, <<"/">>} THEN 4
         ELSE IF token_type.v \in {<<"+">>, <<"-">>} THEN 5
         ELSE IF token_type.v \in {<<"=","=">>, <<"!","=">>, <<">">>, <<"<">>,
                                   <<">","=">>, <<"<","=">>} THEN 3
         ELSE 0
    ELSE 0

\* parser.rs 286-297
get_precedence(token_type) ==
    IF token_type.k = "Dot" THEN 7
    ELSE IF token_type.k = "Op"
    THEN IF token_type.v \in {<<"*">>, <<"/">>} THEN 5
         ELSE IF token_type.v \in {<<"+">>, <<"-">>} THEN 4
         ELSE IF token_type.v \in {<<"=","=">>, <<"!","=">>, <<">">>, <<"<">>,
                                   <<">","=">>, <<"<","=">>} THEN 3
         ELSE 0
    ELSE 0

BinaryOperators ==
    { <<<<"+">>, "Add">>, <<<<"-">>, "Subtract">>, <<<<"*">>, "Multiply">>,
      <<<<"/">>, "Divide">>, <<<<"=","=">>, "Equal">>, <<<<"!","=">>, "NotEqual">>,
      <<<<">">>, "GreaterThan">>, <<<<"<">>, "LessThan">>,
      <<<<">","=">>, "GreaterThanEqual">>, <<<<"<","=">>, "LessThanEqual">> }

\* parser.rs 299-312: the operator, or the error at the cursor p.
token_to_binary_op(toks, p, token_type) ==
    IF token_type.k = "Op"
    THEN IF \E b \in BinaryOperators : b[1] = token_type.v
         THEN Ok((CHOOSE b \in BinaryOperators : b[1] = token_type.v)[2], p)
         ELSE error(toks, p, "Unknown binary operator")
    ELSE error(toks, p, "Expected operator token")

\* The floor of parser.rs 323 without the + 1: the right operand takes the
\* operators of the same level too.
RightFloor_Same(precedence) == precedence

\* parser.rs 323: self.parse_expression_binop(precedence + 1)
RightFloor(precedence) == precedence + 1

\* The number of bytes before the k-th character boundary of a String.
RECURSIVE ByteOffset(_, _)
ByteOffset(s, k) == IF k = 0 THEN 0 ELSE ByteOffset(s, k - 1) + len_utf8(s[k])

\* Whether byte offset b lies on a character boundary of s.
IsBoundary(s, b) == \E k \in 0..Len(s) : ByteOffset(s, k) = b
CharsBefore(s, b) == CHOOSE k \in 0..Len(s) : ByteOffset(s, k) = b

\* The slicing of parser.rs 111 / 126 / 150 taken by characters, as
\* chars[a..b] would be.
str_slice_ByChars(s, a, b) ==
    IF a <= b /\ b <= Len(s)
    THEN [ok |-> TRUE, v |-> SubSeq(s, a + 1, b)]
    ELSE [ok |-> FALSE, v |-> <<>>]

\* parser.rs 111 / 126 / 150: s[a..b] of a String, a and b byte offsets; it
\* panics unless a <= b <= s.len() and both lie on character boundaries.
str_slice(s, a, b) ==
    IF a <= b /\ IsBoundary(s, a) /\ IsBoundary(s, b)
    THEN [ok |-> TRUE, v |-> SubSeq(s, CharsBefore(s, a) + 1, CharsBefore(s, b))]
    ELSE [ok |-> FALSE, v |-> <<>>]

\* parser.rs 119-123: the offset after the matching '}' and the depth left.
RECURSIVE MatchBrace(_, _, _)
MatchBrace(chars, i, brace_count) ==
    IF i < Len(chars) /\ brace_count > 0
    THEN MatchBrace(chars, i + 1,
                    IF chars[i + 1] = "{" THEN brace_count + 1
                    ELSE IF chars[i + 1] = "}" THEN brace_count - 1
                    ELSE brace_count)
    ELSE [i |-> i, brace_count |-> brace_count]

ToStringCall(expr) == Call(Identifier(<<"t","o","_","s","t","r","i","n","g">>), <<expr>>)

\* parser.rs 158-166: the parts joined by '+', from the left.
RECURSIVE FoldParts(_, _, _)
FoldParts(parts, j, final_expr) ==
    IF j > Len(parts) THEN final_expr
    ELSE FoldParts(parts, j + 1, BinaryOp("Add", final_expr, parts[j]))

\* Rust's ? on a Result: an Err (or a panic) of r is returned as it is,
\* otherwise the computation goes on with r.
Try(r, K(_)) == IF r.k # "ok" THEN r ELSE K(r)

\* let x = e; ...
Let(x, K(_)) == K(x)

\* A call of one of the parsing functions that call each other: fn names the
\* function, a is its argument besides the cursor (<<>> when it has none).
RECURSIVE Invoke(_, _, _, _)

RECURSIVE ArgsLoop(_, _, _)
RECURSIVE PostfixLoop(_, _, _)
RECURSIVE BinopLoop(_, _, _, _)
RECURSIVE DictLoop(_, _, _)
RECURSIVE FStringLoop(_, _, _, _, _, _, _)

\* parser.rs 329-331
parse_expression(toks, p) == Invoke("parse_expression_binop", toks, p, 0)

\* parser.rs 177-180 / 246-249 / 277-280: expressions separated by commas.
ArgsLoop(toks, p, args) ==
    Try(parse_expression(toks, p), LAMBDA a :
    IF consumes(toks, a.p, "Comma")
    THEN ArgsLoop(toks, padvance(toks, a.p), Append(args, a.v))
    ELSE Ok(Append(args, a.v), a.p))

\* parser.rs 175-182 / 244-251: the arguments after a consumed '('.
Arguments(toks, p, m) ==
    IF consumes(toks, p, "RParen") THEN Ok(<<>>, padvance(toks, p))
    ELSE Try(ArgsLoop(toks, p, <<>>), LAMBDA a :
         Try(expect(toks, a.p, "RParen", m), LAMBDA c :
         Ok(a.v, c.p)))

\* parser.rs 129: the lexical error of a placeholder, at the f-string token.
PlaceholderError(e, token, p) == ErrAt(e.message, token.line, token.column, p)

\* parser.rs 125-139: the placeholder text is lexed and parsed on its own; p
\* is the cursor of the enclosing parser.
Placeholder(expr_str, token, p) ==
    Let(tokenize(expr_str), LAMBDA lexed :
    IF lexed.st = "panic" THEN PanicR(p)
    ELSE IF lexed.st = "err" THEN PlaceholderError(lexed.err, token, p)
    ELSE Let(parse_expression(lexed.tokens, 0), LAMBDA r :
         IF r.k = "ok" THEN Ok(ToStringCall(r.v), p) ELSE [r EXCEPT !.p = p]))

\* parser.rs 110-113: the literal before a '{' joins the parts.
LiteralBefore(s, i, last_pos, parts, p) ==
    IF i > last_pos
    THEN Let(str_slice(s, last_pos, i), LAMBDA lit :
         IF lit.ok THEN Ok(Append(parts, Literal("String", lit.v)), p) ELSE PanicR(p))
    ELSE Ok(parts, p)

\* parser.rs 107-146: the scan of an f-string body; s is the body, token the
\* f-string token, p the cursor of the enclosing parser (past the f-string).
FStringLoop(s, i, last_pos, parts, token, toks, p) ==
    IF i >= Len(s) THEN Ok([parts |-> parts, last_pos |-> last_pos], p)
    ELSE IF s[i + 1] # "{" THEN FStringLoop(s, i + 1, last_pos, parts, token, toks, p)
    ELSE Try(LiteralBefore(s, i, last_pos, parts, p), LAMBDA parts1 :
         Let(MatchBrace(s, i + 1, 1), LAMBDA m :
         IF m.brace_count # 0 THEN error(toks, p, "Unclosed '{' in f-string")
         ELSE Let(str_slice(s, i + 1, m.i - 1), LAMBDA expr_str :
              IF ~expr_str.ok THEN PanicR(p)
              ELSE Try(Placeholder(expr_str.v, token, p), LAMBDA part :
                   FStringLoop(s, m.i, m.i, Append(parts1.v, part.v), token, toks, p)))))

\* parser.rs 149-152: the literal after the last placeholder joins the parts.
LiteralAfter(s, last_pos, parts, p) ==
    IF last_pos < Len(s)
    THEN Let(str_slice(s, last_pos, ByteOffset(s, Len(s))), LAMBDA lit :
         IF lit.ok THEN Ok(Append(parts, Literal("String", lit.v)), p) ELSE PanicR(p))
    ELSE Ok(parts, p)

\* parser.rs 100-168: the FString arm; p is past the f-string token.
FStringExpr(token, toks, p) ==
    Try(FStringLoop(token.token_type.v, 0, 0, <<>>, token, toks, p), LAMBDA r :
    Try(LiteralAfter(token.token_type.v, r.v.last_pos, r.v.parts, p), LAMBDA parts :
    IF parts.v = <<>> THEN Ok(Literal("String", <<>>), p)
    ELSE Ok(FoldParts(parts.v, 2, parts.v[1]), p)))

\* parser.rs 215-232: the entries of a dictionary literal.
DictLoop(toks, p, entries) ==
    Try(parse_expression(toks, consume_if(toks, consume_if(toks, p, "Newline"), "Indent")),
        LAMBDA key :
    Try(expect(toks, key.p, "Colon", "Expected ':' after dictionary key"), LAMBDA c :
    Try(parse_expression(toks, c.p), LAMBDA value :
    IF consumes(toks, value.p, "Comma")
    THEN DictLoop(toks, consume_if(toks, padvance(toks, value.p), "Newline"),
                  Append(entries, <<key.v, value.v>>))
    ELSE Ok(Append(entries, <<key.v, value.v>>), consume_if(toks, value.p, "Newline")))))

\* parser.rs 206-238: the LBrace arm; p is past the '{'.
DictExpr(toks, p) ==
    Let(consume_if(toks, consume_if(toks, p, "Newline"), "Indent"), LAMBDA p1 :
    IF consumes(toks, p1, "RBrace") THEN Ok(DictLiteral(<<>>), padvance(toks, p1))
    ELSE Try(DictLoop(toks, p1, <<>>), LAMBDA d :
         Try(expect(toks, consume_if(toks, d.p, "Dedent"), "RBrace",
                    "Expected '}' after dictionary entries"), LAMBDA c :
         Ok(DictLiteral(d.v), c.p))))

\* parser.rs 169-187: the New arm; p is past 'new'.
NewExpr(toks, p) ==
    IF kind(toks, p) = "Ident"
    THEN Try(expect(toks, padvance(toks, p), "LParen",
                    "Expected '(' after class name in new expression"), LAMBDA l :
         Try(Arguments(toks, l.p, "Expected ')' after new expression arguments"),
             LAMBDA a :
         Ok(New(payload(toks, p), a.v), a.p)))
    ELSE error(toks, p, "Expected class name after 'new'")

\* parser.rs 199-204: the LParen arm; p is past the '('.
ParenExpr(toks, p) ==
    Try(parse_expression(toks, p), LAMBDA r :
    Try(expect(toks, r.p, "RParen", "Expected ')' after parenthesized expression"),
        LAMBDA c :
    Ok(r.v, c.p)))

\* parser.rs 98-240: the match on the current token.
PrimaryHead(toks, p) ==
    LET token == current_token(toks, p)
        k == token.token_type.k
        v == token.token_type.v
        q == padvance(toks, p)
    IN
    CASE k = "FString" -> FStringExpr(token, toks, q)
      [] k = "New" -> NewExpr(toks, q)
      [] k = "This" -> Ok(This, q)
      [] k = "Int" -> Ok(Literal("Int", v), q)
      [] k = "Float" -> Ok(Literal("Float", v), q)
      [] k = "Str" -> Ok(Literal("String", v), q)
      [] k = "True" -> Ok(Literal("Bool", <<"true">>), q)
      [] k = "False" -> Ok(Literal("Bool", <<"false">>), q)
      [] k = "Ident" -> Ok(Identifier(v), q)
      [] k = "LParen" -> ParenExpr(toks, q)
      [] k = "LBracket" -> Invoke("parse_list_literal", toks, p, <<>>)
      [] k = "LBrace" -> DictExpr(toks, q)
      [] OTHER -> error(toks, p, "Expected a primary expression")

\* The call of parser.rs 252 applied to the receiver of a member access
\* instead of the whole expression read so far.
CallOn_Receiver(expr, args) ==
    IF expr.e = "Get" THEN Get(Call(expr.object, args), expr.name) ELSE Call(expr, args)

\* parser.rs 252: expr = Expression::Call { callee: Box::new(expr), args }
CallOn(expr, args) == Call(expr, args)

\* parser.rs 242-268: the postfix loop.
PostfixLoop(toks, p, expr) ==
    IF consumes(toks, p, "LParen")
    THEN Try(Arguments(toks, padvance(toks, p), "Expected ')' after function arguments"),
             LAMBDA a :
         PostfixLoop(toks, a.p, CallOn(expr, a.v)))
    ELSE IF consumes(toks, p, "LBracket")
    THEN Try(parse_expression(toks, padvance(toks, p)), LAMBDA index :
         Try(expect(toks, index.p, "RBracket", "Expected ']' after index expression"),
             LAMBDA c :
         PostfixLoop(toks, c.p, Index(expr, index.v))))
    ELSE IF consumes(toks, p, "Dot")
    THEN IF kind(toks, padvance(toks, p)) = "Ident"
         THEN PostfixLoop(toks, padvance(toks, padvance(toks, p)),
                          Get(expr, payload(toks, padvance(toks, p))))
         ELSE error(toks, padvance(toks, p), "Expected identifier after '.'")
    ELSE Ok(expr, p)

\* parser.rs 97-271
parse_expression_primary(toks, p) ==
    Try(PrimaryHead(toks, p), LAMBDA h : PostfixLoop(toks, h.p, h.v))

\* parser.rs 273-284
parse_list_literal(toks, p) ==
    Try(expect(toks, p, "LBracket", "Expected '[' to start a list literal"), LAMBDA l :
    Try(IF kind(toks, l.p) # "RBracket" THEN ArgsLoop(toks, l.p, <<>>) ELSE Ok(<<>>, l.p),
        LAMBDA es :
    Try(expect(toks, es.p, "RBracket", "Expected ']' to end a list literal"), LAMBDA c :
    Ok(ListLiteral(es.v), c.p))))

\* parser.rs 316-325: the precedence-climbing loop.
BinopLoop(toks, p, left, min_precedence) ==
    IF kind(toks, p) = "EOF" THEN Ok(left, p)
    ELSE Let(get_precedence(current_token(toks, p).token_type), LAMBDA precedence :
         IF precedence = 0 \/ precedence < min_precedence THEN Ok(left, p)
         ELSE Try(Invoke("parse_expression_binop", toks, padvance(toks, p),
                         RightFloor(precedence)), LAMBDA right :
              Try(token_to_binary_op(toks, right.p, current_token(toks, p).token_type),
                  LAMBDA op :
              BinopLoop(toks, right.p, BinaryOp(op.v, left, right.v), min_precedence))))

\* parser.rs 314-327
parse_expression_binop(toks, p, min_precedence) ==
    Try(Invoke("parse_expression_primary", toks, p, <<>>), LAMBDA left :
    BinopLoop(toks, left.p, left.v, min_precedence))

----------------------------------------------------------------------------
(* Parser: types and statements *)

Type(t) == [t |-> t]
TypeList(inner) == [t |-> "List", inner |-> inner]
TypeDict(key, value) == [t |-> "Dict", key |-> key, value |-> value]
TypeClass(name) == [t |-> "Class", name |-> name]

Import(path) == [s |-> "Import", path |-> path]
Declaration(is_public, is_mutable, name, data_type, initializer) ==
    [s |-> "Declaration", is_public |-> is_public, is_mutable |-> is_mutable,
     name |-> name, data_type |-> data_type, initializer |-> initializer]
Assignment(target, value) == [s |-> "Assignment", target |-> target, value |-> value]
\* alternative: <<>> for None, <<block>> for Some(block)
If(condition, consequence, alternative) ==
    [s |-> "If", condition |-> condition, consequence |-> consequence,
     alternative |-> alternative]
While(condition, body) == [s |-> "While", condition |-> condition, body |-> body]
For(iterator, start, end, body) ==
    [s |-> "For", iterator |-> iterator, start |-> start, end |-> end, body |-> body]
PrintStmt(arg) == [s |-> "Print", arg |-> arg]
ExpressionStmt(expr) == [s |-> "Expression", expr |-> expr]
FunctionDefinition(is_public, name, params, return_type, body) ==
    [s |-> "FunctionDefinition", is_public |-> is_public, name |-> name,
     params |-> params, return_type |-> return_type, body |-> body]
\* expr: <<>> for None, <<e>> for Some(e)
Return(expr) == [s |-> "Return", expr |-> expr]
Class(is_public, name, members) ==
    [s |-> "Class", is_public |-> is_public, name |-> name, members |-> members]
TryCatch(try_block, catch_var, catch_block) ==
    [s |-> "TryCatch", try_block |-> try_block, catch_var |-> catch_var,
     catch_block |-> catch_block]
Break == [s |-> "Break"]
Continue == [s |-> "Continue"]

\* ClassMember: m is "Variable", "Method" or "Constructor".
ClassMember(m, stmt) == [m |-> m, stmt |-> stmt]

INIT == <<"i","n","i","t">>

\* parser.rs 60-95
RECURSIVE parse_type(_, _)
parse_type(toks, p) ==
    LET k == kind(toks, p)
        v == payload(toks, p)
        q == padvance(toks, p)
    IN
    IF k = "Type"
    THEN CASE v = <<"i","n","t">> -> Ok(Type("Int"), q)
           [] v = <<"f","l","o","a","t">> -> Ok(Type("Float"), q)
           [] v = <<"s","t","r","i","n","g">> -> Ok(Type("String"), q)
           [] v = <<"b","o","o","l">> -> Ok(Type("Bool"), q)
           [] v = <<"v","o","i","d">> -> Ok(Type("Void"), q)
           [] v = <<"l","i","s","t">> ->
                Try(expect(toks, q, "LBracket", "Expected '[' after 'list'"), LAMBDA l :
                Try(parse_type(toks, l.p), LAMBDA inner :
                Try(expect(toks, inner.p, "RBracket", "Expected ']' after list inner type"),
                    LAMBDA c :
                Ok(TypeList(inner.v), c.p))))
           [] v = <<"d","i","c","t">> ->
                Try(expect(toks, q, "LBracket", "Expected '[' after 'dict'"), LAMBDA l :
                Try(parse_type(toks, l.p), LAMBDA key :
                Try(expect(toks, key.p, "Comma", "Expected ',' after dictionary key type"),
                    LAMBDA m :
                Try(parse_type(toks, m.p), LAMBDA value :
                Try(expect(toks, value.p, "RBracket",
                           "Expected ']' after dictionary value type"), LAMBDA c :
                Ok(TypeDict(key.v, value.v), c.p))))))
           [] OTHER -> error(toks, p, "Unknown built-in type")
    ELSE IF k = "Ident" THEN Ok(TypeClass(v), q)
    ELSE error(toks, p, "Expected type identifier")

\* parser.rs 337 / 349 / 510: while self.consume_if(TokenType::Newline) {}
RECURSIVE SkipNewlines(_, _)
SkipNewlines(toks, p) ==
    IF consumes(toks, p, "Newline") THEN SkipNewlines(toks, padvance(toks, p)) ELSE p

\* The match of parser.rs 376-378 with its two arms exchanged.
IsMutable_Val(k) == k = "Val"

\* parser.rs 376-378: is_mutable is false for val, true for var.
IsMutable(k) == k = "Var"

\* parser.rs 375-392
parse_declaration(toks, p, is_public) ==
    IF kind(toks, p) \notin {"Val", "Var"} THEN error(toks, p, "Expected 'val' or 'var'")
    ELSE IF kind(toks, padvance(toks, p)) # "Ident"
    THEN error(toks, padvance(toks, p), "Expected identifier after var/val")
    ELSE Try(expect(toks, padvance(toks, padvance(toks, p)), "Colon",
                    "Expected ':' after identifier in declaration"), LAMBDA c :
         Try(parse_type(toks, c.p), LAMBDA data_type :
         Try(expect(toks, data_type.p, "Assign", "Expected '=' in declaration"), LAMBDA a :
         Try(parse_expression(toks, a.p), LAMBDA initializer :
         Ok(Declaration(is_public, IsMutable(kind(toks, p)), payload(toks, padvance(toks, p)),
                        data_type.v, initializer.v),
            initializer.p)))))

\* parser.rs 403-411: the parameters, separated by commas.
RECURSIVE ParamsLoop(_, _, _)
ParamsLoop(toks, p, params) ==
    IF kind(toks, p) # "Ident" THEN error(toks, p, "Expected parameter name")
    ELSE Try(expect(toks, padvance(toks, p), "Colon", "Expected ':' after parameter name"),
             LAMBDA c :
         Try(parse_type(toks, c.p), LAMBDA param_type :
         IF consumes(toks, param_type.p, "Comma")
         THEN ParamsLoop(toks, padvance(toks, param_type.p),
                         Append(params, <<payload(toks, p), param_type.v>>))
         ELSE Ok(Append(params, <<payload(toks, p), param_type.v>>), param_type.p)))

RECURSIVE BlockLoop(_, _, _)
RECURSIVE ClassLoop(_, _, _)

\* A header's ':' and Newline, then its block (parser.rs 421-423, 430-432,
\* 435-437, 445-447, 460-462, 490-492, 502-504).
ColonNewlineBlock(toks, p, mc, mn) ==
    Try(expect(toks, p, "Colon", mc), LAMBDA c :
    Try(expect(toks, c.p, "Newline", mn), LAMBDA n :
    Invoke("parse_block", toks, n.p, <<>>)))

\* parser.rs 336-340
BlockLoop(toks, p, statements) ==
    IF kind(toks, p) \in {"Dedent", "EOF"} THEN Ok(statements, p)
    ELSE IF kind(toks, SkipNewlines(toks, p)) = "Dedent"
    THEN Ok(statements, SkipNewlines(toks, p))
    ELSE Try(Invoke("parse_statement", toks, SkipNewlines(toks, p), <<>>), LAMBDA st :
         BlockLoop(toks, st.p, Append(statements, st.v)))

\* parser.rs 333-343
parse_block(toks, p) ==
    Try(expect(toks, p, "Indent", "Expected indentation for block"), LAMBDA i :
    Try(BlockLoop(toks, i.p, <<>>), LAMBDA b :
    Try(expect(toks, b.p, "Dedent", "Expected dedent to end block"), LAMBDA d :
    Ok(b.v, d.p))))

\* The member of parser.rs 364 for every name.
MemberOf_Method(method) == ClassMember("Method", method)

\* parser.rs 360-366: a member introduced by def.
MemberOf(method) ==
    IF method.name = INIT
    THEN ClassMember("Constructor", method)
    ELSE ClassMember("Method", method)

\* parser.rs 352-369: one member; q is past the blank lines before it.
ClassMemberAt(toks, q) ==
    Let(consume_if(toks, q, "Pub"), LAMBDA q1 :
    IF kind(toks, q1) \in {"Val", "Var"}
    THEN Try(Invoke("parse_declaration", toks, q1, consumes(toks, q, "Pub")), LAMBDA decl :
         Ok(ClassMember("Variable", decl.v), decl.p))
    ELSE IF kind(toks, q1) = "Def"
    THEN Try(Invoke("parse_function_definition", toks, q1, consumes(toks, q, "Pub")),
             LAMBDA method :
         Ok(MemberOf(method.v), method.p))
    ELSE error(toks, q1, "Expected 'val', 'var', or 'def' in class body"))

\* parser.rs 348-370
ClassLoop(toks, p, members) ==
    IF kind(toks, p) \in {"Dedent", "EOF"} THEN Ok(members, p)
    ELSE IF kind(toks, SkipNewlines(toks, p)) = "Dedent"
    THEN Ok(members, SkipNewlines(toks, p))
    ELSE Try(ClassMemberAt(toks, SkipNewlines(toks, p)), LAMBDA member :
         ClassLoop(toks, member.p, Append(members, member.v)))

\* parser.rs 345-373
parse_class_block(toks, p) ==
    Try(expect(toks, p, "Indent", "Expected indentation for class body"), LAMBDA i :
    Try(ClassLoop(toks, i.p, <<>>), LAMBDA b :
    Try(expect(toks, b.p, "Dedent", "Expected dedent to end class body"), LAMBDA d :
    Ok(b.v, d.p))))

\* parser.rs 401-413: the parameter list; p is past the '('.
Parameters(toks, p) ==
    IF consumes(toks, p, "RParen") THEN Ok(<<>>, padvance(toks, p))
    ELSE Try(ParamsLoop(toks, p, <<>>), LAMBDA ps :
         Try(expect(toks, ps.p, "RParen", "Expected ')' after parameters"), LAMBDA c :
         Ok(ps.v, c.p)))

\* Another type in the place of parser.rs 418.
DefaultReturnType_Int == Type("Int")

\* parser.rs 418: the return type of a header without '->'.
DefaultReturnType == Type("Void")

\* parser.rs 415-419
ReturnType(toks, p) ==
    IF consumes(toks, p, "Arrow") THEN parse_type(toks, padvance(toks, p))
    ELSE Ok(DefaultReturnType, p)

\* parser.rs 394-425
parse_function_definition(toks, p, is_public) ==
    Try(expect(toks, p, "Def", "Expected 'def'"), LAMBDA d :
    IF kind(toks, d.p) # "Ident"
    THEN error(toks, d.p, "Expected function name after 'def'")
    ELSE Try(expect(toks, padvance(toks, d.p), "LParen",
                    "Expected '(' after function name"), LAMBDA l :
         Try(Parameters(toks, l.p), LAMBDA params :
         Try(ReturnType(toks, params.p), LAMBDA return_type :
         Try(ColonNewlineBlock(toks, return_type.p,
                               "Expected ':' after function signature",
                               "Expected newline after function definition"),
             LAMBDA body :
         Ok(FunctionDefinition(is_public, payload(toks, d.p), params.v,
                               return_type.v, body.v), body.p))))))

\* parser.rs 433-438: the optional else branch; p is past the consequence.
ElseBranch(toks, p) ==
    IF consumes(toks, p, "Else")
    THEN Try(ColonNewlineBlock(toks, padvance(toks, p), "Expected ':' after 'else'",
                               "Expected newline after else colon"), LAMBDA alternative :
         Ok(<<alternative.v>>, alternative.p))
    ELSE Ok(<<>>, p)

\* parser.rs 427-440
parse_if_statement(toks, p) ==
    Try(expect(toks, p, "If", "Expected 'if'"), LAMBDA i :
    Try(parse_expression(toks, i.p), LAMBDA condition :
    Try(ColonNewlineBlock(toks, condition.p, "Expected ':' after if condition",
                          "Expected newline after if colon"), LAMBDA consequence :
    Try(ElseBranch(toks, consequence.p), LAMBDA alternative :
    Ok(If(condition.v, consequence.v, alternative.v), alternative.p)))))

\* parser.rs 442-449
parse_while_statement(toks, p) ==
    Try(expect(toks, p, "While", "Expected 'while'"), LAMBDA w :
    Try(parse_expression(toks, w.p), LAMBDA condition :
    Try(ColonNewlineBlock(toks, condition.p, "Expected ':' after while condition",
                          "Expected newline after while colon"), LAMBDA body :
    Ok(While(condition.v, body.v), body.p))))

\* parser.rs 451-464
parse_for_statement(toks, p) ==
    Try(expect(toks, p, "For", "Expected 'for'"), LAMBDA f :
    IF kind(toks, f.p) # "Ident"
    THEN error(toks, f.p, "Expected iterator name after 'for'")
    ELSE Try(expect(toks, padvance(toks, f.p), "In", "Expected 'in' after iterator"),
             LAMBDA i :
         Try(parse_expression(toks, i.p), LAMBDA start :
         Try(expect(toks, start.p, "Range", "Expected '..' range operator"), LAMBDA r :
         Try(parse_expression(toks, r.p), LAMBDA end :
         Try(ColonNewlineBlock(toks, end.p, "Expected ':' after range",
                               "Expected newline after for colon"), LAMBDA body :
         Ok(For(payload(toks, f.p), start.v, end.v, body.v), body.p)))))))

\* parser.rs 466-475
parse_import_statement(toks, p) ==
    Try(expect(toks, p, "Import", "Expected 'import'"), LAMBDA i :
    IF kind(toks, i.p) = "Str"
    THEN Ok(Import(payload(toks, i.p)), padvance(toks, i.p))
    ELSE error(toks, i.p, "Expected string literal for import path"))

\* parser.rs 477-486
parse_class_statement(toks, p, is_public) ==
    Try(expect(toks, p, "Class", "Expected 'class'"), LAMBDA c :
    IF kind(toks, c.p) # "Ident" THEN error(toks, c.p, "Expected class name")
    ELSE Try(expect(toks, padvance(toks, c.p), "Colon", "Expected ':' after class name"),
             LAMBDA l :
         Try(expect(toks, l.p, "Newline", "Expected newline after class definition"),
             LAMBDA n :
         Try(Invoke("parse_class_block", toks, n.p, <<>>), LAMBDA members :
         Ok(Class(is_public, payload(toks, c.p), members.v), members.p)))))

\* parser.rs 488-507
parse_try_catch_statement(toks, p) ==
    Try(expect(toks, p, "Try", "Expected 'try'"), LAMBDA t :
    Try(ColonNewlineBlock(toks, t.p, "Expected ':' after 'try'",
                          "Expected newline after 'try:'"), LAMBDA try_block :
    Try(expect(toks, try_block.p, "Catch", "Expected 'catch'"), LAMBDA c :
    IF kind(toks, c.p) # "Ident"
    THEN error(toks, c.p, "Expected identifier for catch variable")
    ELSE Try(ColonNewlineBlock(toks, padvance(toks, c.p),
                               "Expected ':' after catch variable",
                               "Expected newline after 'catch ...:'"), LAMBDA catch_block :
         Ok(TryCatch(try_block.v, payload(toks, c.p), catch_block.v), catch_block.p)))))

\* parser.rs 524-530: the Print arm; p is past 'print'.
PrintArm(toks, p) ==
    Try(expect(toks, p, "LParen", "Expected '(' after 'print'"), LAMBDA l :
    Try(parse_expression(toks, l.p), LAMBDA arg :
    Try(expect(toks, arg.p, "RParen", "Expected ')' after print argument"), LAMBDA c :
    Ok(PrintStmt(arg.v), c.p))))

\* parser.rs 531-539: the Pub arm; p is past 'pub'.
PubArm(toks, p) ==
    IF kind(toks, p) \in {"Val", "Var"} THEN Invoke("parse_declaration", toks, p, TRUE)
    ELSE IF kind(toks, p) = "Def" THEN Invoke("parse_function_definition", toks, p, TRUE)
    ELSE IF kind(toks, p) = "Class" THEN Invoke("parse_class_statement", toks, p, TRUE)
    ELSE error(toks, p, "Expected 'val', 'var', 'def', or 'class' after 'pub'")

\* parser.rs 547: the tokens after which return carries no expression.
ReturnIsBare(k) == k \in {"Newline", "EOF"}

\* parser.rs 545-550: the Return arm; p is past 'return'.
ReturnArm(toks, p) ==
    IF ReturnIsBare(kind(toks, p)) THEN Ok(Return(<<>>), p)
    ELSE Try(parse_expression(toks, p), LAMBDA expr : Ok(Return(<<expr.v>>), expr.p))

\* parser.rs 551-559: an assignment or an expression statement.
ExpressionArm(toks, p) ==
    Try(parse_expression(toks, p), LAMBDA target :
    IF consumes(toks, target.p, "Assign")
    THEN Try(parse_expression(toks, padvance(toks, target.p)), LAMBDA value :
         Ok(Assignment(target.v, value.v), value.p))
    ELSE Ok(ExpressionStmt(target.v), target.p))

\* parser.rs 512-560: the match on the token after the newlines.
StatementAt(toks, p) ==
    LET k == kind(toks, p)
        q == padvance(toks, p)
    IN
    CASE k = "Import" -> parse_import_statement(toks, p)
      [] k = "Class" -> Invoke("parse_class_statement", toks, p, FALSE)
      [] k = "Try" -> parse_try_catch_statement(toks, p)
      [] k = "Break" -> Ok(Break, q)
      [] k = "Continue" -> Ok(Continue, q)
      [] k = "Print" -> PrintArm(toks, q)
      [] k = "Pub" -> PubArm(toks, q)
      [] k \in {"Val", "Var"} -> Invoke("parse_declaration", toks, p, FALSE)
      [] k = "Def" -> Invoke("parse_function_definition", toks, p, FALSE)
      [] k = "If" -> parse_if_statement(toks, p)
      [] k = "While" -> parse_while_statement(toks, p)
      [] k = "For" -> parse_for_statement(toks, p)
      [] k = "Return" -> ReturnArm(toks, q)
      [] OTHER -> ExpressionArm(toks, p)

\* parser.rs 509-561
parse_statement(toks, p) == StatementAt(toks, SkipNewlines(toks, p))

Invoke(fn, toks, p, a) ==
    CASE fn = "parse_expression_binop" -> parse_expression_binop(toks, p, a)
      [] fn = "parse_expression_primary" -> parse_expression_primary(toks, p)
      [] fn = "parse_list_literal" -> parse_list_literal(toks, p)
      [] fn = "parse_statement" -> parse_statement(toks, p)
      [] fn = "parse_block" -> parse_block(toks, p)
      [] fn = "parse_class_block" -> parse_class_block(toks, p)
      [] fn = "parse_class_statement" -> parse_class_statement(toks, p, a)
      [] fn = "parse_declaration" -> parse_declaration(toks, p, a)
      [] fn = "parse_function_definition" -> parse_function_definition(toks, p, a)

\* parser.rs 565-568
RECURSIVE ParseLoop(_, _, _)
ParseLoop(toks, p, statements) ==
    IF kind(toks, p) = "EOF" THEN Ok(Program(statements), p)
    ELSE IF consumes(toks, p, "Newline")
    THEN ParseLoop(toks, padvance(toks, p), statements)
    ELSE Try(Invoke("parse_statement", toks, p, <<>>), LAMBDA st :
         ParseLoop(toks, st.p, Append(statements, st.v)))

\* parser.rs 563-570: Parser::new(&tokens).parse()
parse(toks) == ParseLoop(toks, 0, <<>>)

\* main.rs 69-84: tokenize, then parse, as one function of the source text; a
\* lexical error is carried in the same shape as a parser error.
compile(src) ==
    Let(tokenize(src), LAMBDA lexed :
    IF lexed.st = "ok" THEN parse(lexed.tokens)
    ELSE IF lexed.st = "err"
    THEN ErrAt(lexed.err.message, lexed.err.line, lexed.err.column, 0)
    ELSE PanicR(0))

----------------------------------------------------------------------------
(* Source texts.  gen records the shape a text was drawn from; Render      *)
(* writes it out as characters.                                            *)

MaxLines == 3
MaxOps == 2
MaxChain == 4
MaxSegs == 3
MaxWsLines == 2
MaxIdent == 3
MaxMembers == 2
MaxBrackets == 4
MaxNum == 4
MaxUnits == 2
MaxFinalLines == 3
MaxPad == 2

RECURSIVE Concat(_)
Concat(ss) == IF ss = <<>> THEN <<>> ELSE Head(ss) \o Concat(Tail(ss))

SeqsUpTo(S, n) == UNION { [1..k -> S] : k \in 0..n }

\* Layout texts: up to MaxLines lines, each an indentation and a body; every
\* line but the last ends with a newline, the last with one of LastEnds.
Indents == { <<>>, <<SP>>, <<SP, SP>> }
Bodies == { <<>>, <<"a">>, <<"#", "c">>, <<"i", "f", SP, "a", ":">> }
LastEnds == { <<NL>>, <<>>, <<SP>> }
LayoutLines == { [ws |-> w, body |-> b] : w \in Indents, b \in Bodies }
LayoutGens ==
    { [fam |-> "layout", lines |-> ls, end |-> e] :
        ls \in SeqsUpTo(LayoutLines, MaxLines), e \in LastEnds }

RECURSIVE RenderLines(_, _)
RenderLines(ls, end) ==
    IF ls = <<>> THEN end
    ELSE IF Len(ls) = 1 THEN ls[1].ws \o ls[1].body \o end
    ELSE ls[1].ws \o ls[1].body \o <<NL>> \o RenderLines(Tail(ls), end)

\* if a:\n  print(a)\n else:\n  print(0)\n
UnindentExample ==
    <<"i","f",SP,"a",":",NL,
      SP,SP,"p","r","i","n","t","(","a",")",NL,
      SP,"e","l","s","e",":",NL,
      SP,SP,"p","r","i","n","t","(","0",")",NL>>

\* if a:\n  print(a)\nelse:\n  print(0)\n
IfElseExample ==
    <<"i","f",SP,"a",":",NL,
      SP,SP,"p","r","i","n","t","(","a",")",NL,
      "e","l","s","e",":",NL,
      SP,SP,"p","r","i","n","t","(","0",")",NL>>

LayoutTexts == { [fam |-> "text", text |-> t] : t \in {UnindentExample, IfElseExample} }

\* Infix texts: operands joined by operators.  The operand at place i is the
\* identifier OperandNames[i], or the group (p-q) where par[i] holds.
InfixTexts == { b[1] : b \in BinaryOperators }
OperandNames == <<"a", "b", "c", "d", "e">>
ParenText == <<"(", "p", "-", "q", ")">>
ExprGens ==
    { [fam |-> "expr", ops |-> os, par |-> ps] :
        os \in SeqsUpTo(InfixTexts, MaxOps), ps \in SeqsUpTo(BOOLEAN, MaxOps + 1) }

OperandText(g, i) == IF g.par[i] THEN ParenText ELSE <<OperandNames[i]>>

RECURSIVE RenderExpr(_, _)
RenderExpr(g, i) ==
    IF i > Len(g.ops) THEN OperandText(g, i)
    ELSE OperandText(g, i) \o g.ops[i] \o RenderExpr(g, i + 1)

\* Postfix texts: the identifier a followed by a chain of postfix operators,
\* alone (ctx empty) or as the right operand of the infix operator ctx.
PostfixKinds == { "dot_b", "call_1", "index_2", "dot_c" }
PostfixText(kd) ==
    CASE kd = "dot_b" -> <<".", "b">>
      [] kd = "call_1" -> <<"(", "1", ")">>
      [] kd = "index_2" -> <<"[", "2", "]">>
      [] kd = "dot_c" -> <<".", "c">>
PostfixGens ==
    { [fam |-> "postfix", chain |-> ch, ctx |-> cx] :
        ch \in SeqsUpTo(PostfixKinds, MaxChain), cx \in InfixTexts \cup {<<>>} }

RenderPostfix(g) ==
    (IF g.ctx = <<>> THEN <<>> ELSE <<"x">> \o g.ctx)
    \o <<"a">> \o Concat([i \in 1..Len(g.chain) |-> PostfixText(g.chain[i])])

\* F-string texts: an f-string whose body is a run of segments (literal
\* text, placeholders, malformed placeholders), alone or after "a+".
Segments ==
    { [t |-> "lit", text |-> <<"x", "=">>],
      [t |-> "lit", text |-> <<EACUTE>>],
      [t |-> "ph", text |-> <<"n">>],
      [t |-> "ph", text |-> <<"a">>],
      [t |-> "ph", text |-> <<"b">>],
      [t |-> "ph", text |-> <<EACUTE>>],
      [t |-> "bad", text |-> <<"{">>],
      [t |-> "bad", text |-> <<"{", "}">>],
      [t |-> "bad", text |-> <<"{", "$", "}">>] }
Prefixes == { <<>>, <<"a", "+">> }
FStringGens ==
    { [fam |-> "fstring", pre |-> pr, segs |-> sg] :
        pr \in Prefixes, sg \in SeqsUpTo(Segments, MaxSegs) }

SegmentText(sg) == IF sg.t = "ph" THEN <<"{">> \o sg.text \o <<"}">> ELSE sg.text

RenderFString(g) ==
    g.pre \o <<"f", QUOTE>>
    \o Concat([i \in 1..Len(g.segs) |-> SegmentText(g.segs[i])]) \o <<QUOTE>>

\* Whitespace texts: up to MaxWsLines lines indented with spaces or a tab,
\* empty or holding a name, a carriage return, a carriage return before a
\* name, or a string literal that runs over a line break.
WsIndents == { <<>>, <<SP>>, <<TAB>>, <<SP, SP>> }
WsBodies ==
    { <<>>, <<"a">>, <<CR>>, <<CR, "a">>, <<QUOTE, "x", NL, "y", QUOTE>> }
WsLines == { [ws |-> w, body |-> b] : w \in WsIndents, b \in WsBodies }
WsGens ==
    { [fam |-> "ws", lines |-> ls, end |-> e] :
        ls \in SeqsUpTo(WsLines, MaxWsLines), e \in { <<NL>>, <<>> } }

\* Identifier texts: a word (a keyword, a type name, or up to MaxIdent
\* characters out of f, o, r, _ and 1) followed by nothing, a space or (.
WordChars == { "f", "o", "r", "_", "1" }
Words ==
    { kw[2] : kw \in Keywords } \cup TypeNames
    \cup (SeqsUpTo(WordChars, MaxIdent) \ { <<>> })
WordTails == { <<>>, <<SP>>, <<"(">> }
IdentGens == { [fam |-> "ident", word |-> w, tail |-> t] : w \in Words, t \in WordTails }

\* Definition texts: a function definition at top level, or a class Box of
\* up to MaxMembers members, each a variable v or a function; every function
\* takes x: int and has the body this.v = x; blocks are indented by four
\* spaces a level.
FnNames == { <<"i","n","i","t">>, <<"g","e","t">> }
ReturnTexts ==
    { <<>>, <<SP,"-",">",SP,"i","n","t">>,
      <<SP,"-",">",SP,"l","i","s","t","[","i","n","t","]">> }
FnShapes ==
    { [m |-> "def", pub |-> b, name |-> n, ret |-> r] :
        b \in BOOLEAN, n \in FnNames, r \in ReturnTexts }
VarShapes ==
    { [m |-> "var", pub |-> TRUE, mutable |-> FALSE],
      [m |-> "var", pub |-> FALSE, mutable |-> TRUE] }
DefGens ==
    { [fam |-> "def", fn |-> f] : f \in FnShapes }
    \cup { [fam |-> "class", pub |-> b, members |-> ms] :
             b \in BOOLEAN,
             ms \in SeqsUpTo(FnShapes \cup VarShapes, MaxMembers) \ { <<>> } }

Margin == <<SP, SP, SP, SP>>
PubText(b) == IF b THEN <<"p","u","b",SP>> ELSE <<>>

RenderFn(f, margin) ==
    margin \o PubText(f.pub) \o <<"d","e","f",SP>> \o f.name
    \o <<"(","x",":",SP,"i","n","t",")">> \o f.ret \o <<":",NL>>
    \o margin \o Margin \o <<"t","h","i","s",".","v",SP,"=",SP,"x",NL>>

RenderVar(v, margin) ==
    margin \o PubText(v.pub)
    \o (IF v.mutable THEN <<"v","a","r">> ELSE <<"v","a","l">>)
    \o <<SP,"v",":",SP,"i","n","t",SP,"=",SP,"0",NL>>

RenderMember(m, margin) ==
    IF m.m = "def" THEN RenderFn(m, margin) ELSE RenderVar(m, margin)

RenderClass(g) ==
    PubText(g.pub) \o <<"c","l","a","s","s",SP,"B","o","x",":",NL>>
    \o Concat([i \in 1..Len(g.members) |-> RenderMember(g.members[i], Margin)])

\* Bracket texts: up to MaxBrackets characters out of the name a, the three
\* kinds of brackets and the colon.
BracketChars == { "a", "(", ")", "[", "]", "{", "}", ":" }
BracketGens == { [fam |-> "bracket", text |-> t] : t \in SeqsUpTo(BracketChars, MaxBrackets) }

\* Number texts: a digit followed by up to MaxNum - 1 digits and dots, and
\* the numerals around i64::MAX.
NumChars == { "0", "1", "9", "." }
I64MaxPlus1 == <<"9","2","2","3","3","7","2","0","3","6","8","5","4","7","7","5","8","0","8">>
LongNumerals ==
    { I64Max, <<"0">> \o I64Max, I64MaxPlus1, I64Max \o <<"0">>,
      I64MaxPlus1 \o <<".", ".", "1">>, I64Max \o <<".", ".", "1">> }
NumGens ==
    { [fam |-> "num", text |-> t] :
        t \in { u \in SeqsUpTo(NumChars, MaxNum) : u # <<>> /\ u[1] # "." }
               \cup LongNumerals }

\* Texts without a final newline: from one to MaxFinalLines lines, each at
\* the margin or two spaces in, with a newline between two lines and none
\* after the last.
FinalBodies ==
    { <<"a">>,
      <<"r", "e", "t", "u", "r", "n">>,
      <<"r", "e", "t", "u", "r", "n", SP, "a">>,
      <<"i", "f", SP, "a", ":">> }
FinalLines == { [ws |-> w, body |-> b] : w \in { <<>>, <<SP, SP>> }, b \in FinalBodies }
FinalGens ==
    { [fam |-> "final", lines |-> ls] : ls \in SeqsUpTo(FinalLines, MaxFinalLines) \ { <<>> } }

RenderFinal(g) ==
    Concat([i \in 1..Len(g.lines) |->
               g.lines[i].ws \o g.lines[i].body \o (IF i < Len(g.lines) THEN <<NL>> ELSE <<>>)])

\* Placeholder texts: a line holding an f-string of one placeholder, whose
\* text is a body with up to MaxPad spaces before it and after it. The
\* bodies: x, a+b, a(1), a b, a = 1.
PhBodies ==
    { <<"x">>,
      <<"a", "+", "b">>,
      <<"a", "(", "1", ")">>,
      <<"a", SP, "b">>,
      <<"a", SP, "=", SP, "1">> }
Pad(n) == [i \in 1..n |-> SP]
PhGens ==
    { [fam |-> "ph", lead |-> l, trail |-> t, body |-> b] :
        l \in 0..MaxPad, t \in 0..MaxPad, b \in PhBodies }

RenderPh(g) ==
    <<"f", QUOTE, "{">> \o Pad(g.lead) \o g.body \o Pad(g.trail) \o <<"}", QUOTE, NL>>

\* Loop texts: up to MaxUnits lines, one for every loop of the lexer and
\* the parser:
\*   a call with two arguments
\*   a list literal
\*   a dictionary literal
\*   an infix chain
\*   a postfix chain
\*   an if statement with a block of two statements
\*   a class with two members
\*   an f-string with an f-string in its placeholder
\*   a comment
\*   an unclosed call
\*   an unclosed dictionary
\*   a character of no token
Units ==
    { <<"a", "(", "b", ",", "c", ")">>,
      <<"[", "a", ",", "b", "]">>,
      <<"{", "a", ":", "b", ",", "c", ":", "d", "}">>,
      <<"a", "+", "b", "*", "c">>,
      <<"a", ".", "b", "[", "c", "]", "(", "d", ")">>,
      <<"i", "f", SP, "a", ":", NL, SP, SP, "b", NL, SP, SP, "c">>,
      <<"c", "l", "a", "s", "s", SP, "C", ":", NL, SP, SP, "v", "a", "l", SP, "v", ":", "i", "n", "t", "=", "0", NL, SP, SP, "d", "e", "f", SP, "g", "(", ")", ":", NL, SP, SP, SP, SP, "r", "e", "t", "u", "r", "n", SP, "1">>,
      <<"f", QUOTE, "x", "{", "f", BSL, QUOTE, "{", "a", "}", BSL, QUOTE, "}", "y", QUOTE>>,
      <<"#", "c">>,
      <<"a", "(">>,
      <<"{", "a", ":", "b", ",">>,
      <<"$">> }
LoopGens == { [fam |-> "loops", units |-> us] : us \in SeqsUpTo(Units, MaxUnits) }

RenderUnits(g) == Concat([i \in 1..Len(g.units) |-> g.units[i] \o <<NL>>])

Render(g) ==
    CASE g.fam = "layout" -> RenderLines(g.lines, g.end)
      [] g.fam = "loops" -> RenderUnits(g)
      [] g.fam = "final" -> RenderFinal(g)
      [] g.fam = "ph" -> RenderPh(g)
      [] g.fam = "num" -> g.text
      [] g.fam = "bracket" -> g.text
      [] g.fam = "def" -> RenderFn(g.fn, <<>>)
      [] g.fam = "class" -> RenderClass(g)
      [] g.fam = "ident" -> g.word \o g.tail
      [] g.fam = "ws" -> RenderLines(g.lines, g.end)
      [] g.fam = "text" -> g.text
      [] g.fam = "expr" -> RenderExpr(g, 1)
      [] g.fam = "postfix" -> RenderPostfix(g)
      [] g.fam = "fstring" -> RenderFString(g)

----------------------------------------------------------------------------
(* The program: main (main.rs 62-102) reads the file, runs tokenize, then   *)
(* parse, then the serializer or code generator.  tokenize is taken one    *)
(* iteration of its main loop at a time.                                   *)

NoResult == [k |-> "none", v |-> <<>>, p |-> 0, err |-> NoErr]

\* The Lexer and the locals of tokenize, as one record.
Cur ==
    [input |-> input, pos |-> pos, line |-> line, column |-> column,
     tokens |-> tokens, indent_stack |-> indent_stack, st |-> "loop", err |-> NoErr]

Start(g) ==
    /\ gen = g
    /\ input = Render(g)
    /\ pos = 0
    /\ line = 1
    /\ column = 1
    /\ tokens = <<>>
    /\ indent_stack = <<0>>
    /\ pc = "read"
    /\ readres = "none"
    /\ lexres = "none"
    /\ lexerr = NoErr
    /\ program = NoResult
    /\ emitres = "none"
    /\ exit_code = -1

InitLayout == \E g \in LayoutGens \cup LayoutTexts : Start(g)
InitExpr == \E g \in { h \in ExprGens : Len(h.par) = Len(h.ops) + 1 } : Start(g)
InitPostfix == \E g \in PostfixGens : Start(g)
InitFString == \E g \in FStringGens : Start(g)
InitWs == \E g \in WsGens : Start(g)
InitIdent == \E g \in IdentGens : Start(g)
InitDef == \E g \in DefGens : Start(g)
InitBracket == \E g \in BracketGens : Start(g)
InitNum == \E g \in NumGens : Start(g)
InitLoops == \E g \in LoopGens : Start(g)
InitFinal == \E g \in FinalGens : Start(g)
InitPh == \E g \in PhGens : Start(g)

Init == InitLayout \/ InitExpr \/ InitPostfix \/ InitFString \/ InitWs
        \/ InitIdent \/ InitDef \/ InitBracket \/ InitNum
        \/ InitLoops \/ InitFinal \/ InitPh

SetLexer(L) ==
    /\ pos' = L.pos
    /\ line' = L.line
    /\ column' = L.column
    /\ tokens' = L.tokens
    /\ indent_stack' = L.indent_stack

\* The exit code for every outcome.
ExitStatus_Zero(ok) == 0

\* main.rs 62-102: process::exit(1) in every Err arm; 0 when main returns.
ExitStatus(ok) == IF ok THEN 0 ELSE 1

\* main.rs 62-68: fs::read_to_string(file_path_arg) returns the text of the
\* file or fails.
ReadFile ==
    /\ pc = "read"
    /\ \E ok \in BOOLEAN :
          /\ readres' = IF ok THEN "ok" ELSE "err"
          /\ pc' = IF ok THEN "tokenize" ELSE "exit"
          /\ exit_code' = IF ok THEN -1 ELSE ExitStatus(FALSE)
    /\ UNCHANGED <<gen, input, pos, line, column, tokens, indent_stack, lexres,
                   lexerr, program, emitres>>

\* lexer.rs 80-283: one iteration of the main loop of tokenize; an Err ends
\* main with exit code 1 (main.rs 72-75), a panic aborts the process (101).
LexStep ==
    /\ pc = "tokenize"
    /\ pos < Len(input)
    /\ LET L == LexIter(Cur) IN
       /\ SetLexer(L)
       /\ lexres' = IF L.st \in {"err", "panic"} THEN L.st ELSE "none"
       /\ lexerr' = L.err
       /\ pc' = IF L.st \in {"err", "panic"} THEN "exit" ELSE "tokenize"
       /\ exit_code' = IF L.st = "err" THEN ExitStatus(FALSE)
                       ELSE IF L.st = "panic" THEN 101 ELSE -1
    /\ UNCHANGED <<gen, input, readres, program, emitres>>

\* lexer.rs 285-290: the loop is left; the open blocks are closed, EOF is
\* emitted and tokenize returns Ok(tokens) (main.rs 70-71).
LexReturn ==
    /\ pc = "tokenize"
    /\ pos >= Len(input)
    /\ SetLexer(LexFinish(Cur))
    /\ lexres' = "ok"
    /\ pc' = "parse"
    /\ UNCHANGED <<gen, input, readres, lexerr, program, emitres, exit_code>>

\* main.rs 78-84: Parser::new(&tokens).parse()
Parse ==
    /\ pc = "parse"
    /\ program' = parse(tokens)
    /\ pc' = IF program'.k = "ok" THEN "emit" ELSE "exit"
    /\ exit_code' = IF program'.k = "ok" THEN -1
                    ELSE IF program'.k = "err" THEN ExitStatus(FALSE) ELSE 101
    /\ UNCHANGED <<gen, input, pos, line, column, tokens, indent_stack, readres,
                   lexres, lexerr, emitres>>

\* main.rs 86-102: the serializer or the code generator, either of which
\* succeeds or fails.
Emit1 ==
    /\ pc = "emit"
    /\ \E ok \in BOOLEAN :
          /\ emitres' = IF ok THEN "ok" ELSE "err"
          /\ exit_code' = ExitStatus(ok)
    /\ pc' = "exit"
    /\ UNCHANGED <<gen, input, pos, line, column, tokens, indent_stack, readres,
                   lexres, lexerr, program>>

Next == ReadFile \/ LexStep \/ LexReturn \/ Parse \/ Emit1

Spec == Init /\ [][Next]_vars
SpecLayout == InitLayout /\ [][Next]_vars
SpecExpr == InitExpr /\ [][Next]_vars
SpecPostfix == InitPostfix /\ [][Next]_vars
SpecFString == InitFString /\ [][Next]_vars
SpecWs == InitWs /\ [][Next]_vars
SpecIdent == InitIdent /\ [][Next]_vars
SpecDef == InitDef /\ [][Next]_vars
SpecBracket == InitBracket /\ [][Next]_vars
SpecNum == InitNum /\ [][Next]_vars
SpecLoops == InitLoops /\ [][Next]_vars
SpecFinal == InitFinal /\ [][Next]_vars
SpecPh == InitPh /\ [][Next]_vars

\* main is one sequential process that runs until it exits: the stage it is
\* in is carried out. tokenize can take a step exactly when pc = "tokenize"
\* and parse exactly when pc = "parse", so their weak fairness is written
\* with these conditions in the place of ENABLED.
FairLex == []<>(pc # "tokenize") \/ []<><<LexStep \/ LexReturn>>_vars
FairParse == []<>(pc # "parse") \/ []<><<Parse>>_vars
LiveLoops ==
    /\ InitLoops /\ [][Next]_vars
    /\ WF_vars(ReadFile) /\ FairLex /\ FairParse /\ WF_vars(Emit1)

----------------------------------------------------------------------------
(* Properties.  A run is finished once main, having read the file, has a    *)
(* Program or an error.                                                    *)

Finished == readres = "ok" /\ pc \in {"emit", "exit"}

\* main holds a Program made of one expression statement.
ExprParsed ==
    /\ lexres = "ok"
    /\ program.k = "ok"
    /\ Len(program.v.statements) = 1
    /\ program.v.statements[1].s = "Expression"

TheExpr == program.v.statements[1].expr

\* The number of tokens of variant k among the first n.
Count(k, n) == Cardinality({ i \in 1..n : tokens[i].token_type.k = k })

\* C1: on every source tokenize accepts, the returned tokens have at every
\* prefix at least as many Indent as Dedent tokens, and as many of each over
\* the whole sequence.
IndentDedentBalanced ==
    lexres = "ok" =>
        /\ \A n \in 0..Len(tokens) : Count("Indent", n) >= Count("Dedent", n)
        /\ Count("Indent", Len(tokens)) = Count("Dedent", Len(tokens))

\* tokenize returned with two nested blocks closed at the end of the input.
TwoBlocksClosedAtEnd ==
    /\ lexres = "ok"
    /\ pc = "parse"
    /\ Len(tokens) >= 5
    /\ Count("Indent", Len(tokens)) >= 2
    /\ tokens[Len(tokens) - 1].token_type.k = "Dedent"
    /\ tokens[Len(tokens) - 2].token_type.k = "Dedent"

\* C2: tokenize followed by parse ends in a Program or in an error value,
\* never in an internal failure (a panic).
NoInternalFailure == lexres # "panic" /\ program.k # "panic" /\ exit_code # 101

\* A text of blank lines, indentation and comments only.
BlankSource ==
    /\ gen.fam = "layout"
    /\ \A i \in 1..Len(gen.lines) : gen.lines[i].body \in { <<>>, <<"#", "c">> }

\* C3: a source of whitespace and comments only is accepted by tokenize and
\* parses to the Program without statements.
BlankSourceIsEmptyProgram ==
    (BlankSource /\ Finished) =>
        (lexres = "ok" /\ program.k = "ok" /\ program.v = Program(<<>>))

\* The places k at which the text splits into a source S (the first k
\* characters) and a non-empty run of spaces and tabs up to its end.
TrailingSplits ==
    { k \in 0..(Len(input) - 1) : \A i \in (k + 1)..Len(input) : input[i] \in {SP, TAB} }

\* C4: when a source S lexes and parses, S followed by a run of spaces and
\* tabs without a newline lexes and parses to the same Program.
TrailingWhitespaceValid ==
    Finished =>
        \A k \in TrailingSplits :
            compile(SubSeq(input, 1, k)).k = "ok" =>
                /\ lexres = "ok"
                /\ program.k = "ok"
                /\ program.v = compile(SubSeq(input, 1, k)).v

\* The spec's table of infix operators: text, AST name, level.
InfixName(text) ==
    CASE text = <<"+">> -> "Add"
      [] text = <<"-">> -> "Subtract"
      [] text = <<"*">> -> "Multiply"
      [] text = <<"/">> -> "Divide"
      [] text = <<"=", "=">> -> "Equal"
      [] text = <<"!", "=">> -> "NotEqual"
      [] text = <<">">> -> "GreaterThan"
      [] text = <<"<">> -> "LessThan"
      [] text = <<">", "=">> -> "GreaterThanEqual"
      [] text = <<"<", "=">> -> "LessThanEqual"
InfixLevel(name) ==
    IF name \in {"Multiply", "Divide"} THEN 5
    ELSE IF name \in {"Add", "Subtract"} THEN 4
    ELSE 3

\* The tree of the operand at place i: an identifier, or the group (p-q).
ParenTree == BinaryOp("Subtract", Identifier(<<"p">>), Identifier(<<"q">>))
OperandTree(i) == IF gen.par[i] THEN ParenTree ELSE Identifier(<<OperandNames[i]>>)

\* t is an infix node that was not written in parentheses.
BareInfix(t) == t.e = "BinaryOp" /\ t # ParenTree

RECURSIVE WellNested(_)
WellNested(t) ==
    IF ~BareInfix(t) THEN TRUE
    ELSE /\ BareInfix(t.right) => InfixLevel(t.right.op) > InfixLevel(t.op)
         /\ BareInfix(t.left) => InfixLevel(t.left.op) >= InfixLevel(t.op)
         /\ WellNested(t.left)
         /\ WellNested(t.right)

\* The operands of a tree, from left to right.
RECURSIVE InOrder(_)
InOrder(t) == IF BareInfix(t) THEN InOrder(t.left) \o InOrder(t.right) ELSE <<t>>

RECURSIVE FoldLeft(_)
FoldLeft(n) ==
    IF n = 0 THEN OperandTree(1)
    ELSE BinaryOp(InfixName(gen.ops[n]), FoldLeft(n - 1), OperandTree(n + 1))

SameLevelChain ==
    /\ gen.fam = "expr"
    /\ Len(gen.ops) >= 2
    /\ \A i \in 1..Len(gen.ops) :
           InfixLevel(InfixName(gen.ops[i])) = InfixLevel(InfixName(gen.ops[1]))

\* C6: a chain a op1 b op2 c of operators of one level (comparisons
\* included) parses as BinaryOp(op2, BinaryOp(op1, a, b), c).
LeftAssociative ==
    (SameLevelChain /\ Finished) =>
        (ExprParsed /\ TheExpr = FoldLeft(Len(gen.ops)))

\* a == b == c was parsed.
ComparisonChainParsed ==
    /\ gen.fam = "expr"
    /\ pc = "emit"
    /\ gen.ops = << <<"=", "=">>, <<"=", "=">> >>
    /\ gen.par = <<FALSE, FALSE, FALSE>>
    /\ TheExpr.left.e = "BinaryOp"

\* The first n postfix operators of the text, each wrapping what precedes it.
RECURSIVE PostfixTree(_)
PostfixTree(n) ==
    IF n = 0 THEN Identifier(<<"a">>)
    ELSE CASE gen.chain[n] = "dot_b" -> Get(PostfixTree(n - 1), <<"b">>)
           [] gen.chain[n] = "call_1" ->
                Call(PostfixTree(n - 1), <<Literal("Int", <<"1">>)>>)
           [] gen.chain[n] = "index_2" ->
                Index(PostfixTree(n - 1), Literal("Int", <<"2">>))
           [] gen.chain[n] = "dot_c" -> Get(PostfixTree(n - 1), <<"c">>)

\* C7: a chain of postfix operators after a primary expression parses nested
\* to the left in source order, and as one operand of an infix operator
\* written before it.
PostfixLeftFold ==
    (gen.fam = "postfix" /\ Finished) =>
        /\ ExprParsed
        /\ TheExpr = IF gen.ctx = <<>> THEN PostfixTree(Len(gen.chain))
                     ELSE BinaryOp(InfixName(gen.ctx), Identifier(<<"x">>),
                                   PostfixTree(Len(gen.chain)))

\* x*a.b(1)[2].c was parsed.
PostfixExampleParsed ==
    /\ gen.fam = "postfix"
    /\ pc = "emit"
    /\ gen.chain = <<"dot_b", "call_1", "index_2", "dot_c">>
    /\ gen.ctx = <<"*">>
    /\ TheExpr.right.e = "Get"
    /\ TheExpr.right.object.e = "Index"

\* The parts of an f-string body: the text between two placeholders is one
\* literal, a placeholder is to_string of its expression.
RECURSIVE BodyParts(_, _, _, _)
BodyParts(segs, i, parts, text) ==
    IF i > Len(segs)
    THEN IF text = <<>> THEN parts ELSE Append(parts, Literal("String", text))
    ELSE IF segs[i].t = "lit" THEN BodyParts(segs, i + 1, parts, text \o segs[i].text)
    ELSE BodyParts(segs, i + 1,
                   Append(IF text = <<>> THEN parts
                          ELSE Append(parts, Literal("String", text)),
                          ToStringCall(Identifier(segs[i].text))),
                   <<>>)

RECURSIVE AddChain(_, _)
AddChain(parts, n) ==
    IF n = 1 THEN parts[1] ELSE BinaryOp("Add", AddChain(parts, n - 1), parts[n])

Expansion(segs) ==
    IF BodyParts(segs, 1, <<>>, <<>>) = <<>> THEN Literal("String", <<>>)
    ELSE AddChain(BodyParts(segs, 1, <<>>, <<>>), Len(BodyParts(segs, 1, <<>>, <<>>)))

\* An f-string text whose placeholders are all well-formed.
WellFormedFString == gen.fam = "fstring" /\ \A i \in 1..Len(gen.segs) : gen.segs[i].t # "bad"

ExpandedAsExpected ==
    /\ ExprParsed
    /\ TheExpr = IF gen.pre = <<>> THEN Expansion(gen.segs)
                 ELSE BinaryOp("Add", Identifier(<<"a">>), Expansion(gen.segs))

\* C8: the body of an f-string is split in source order into literal text
\* and placeholders, each placeholder becomes to_string(expr), and the parts
\* are joined by Add from the left; an empty body is the literal "".
FStringExpansion == (WellFormedFString /\ Finished) => ExpandedAsExpected

\* The expansion on the bodies whose characters are all one byte wide.
FStringExpansionOneByte ==
    (WellFormedFString /\ Finished
        /\ \A i \in 1..Len(gen.segs) : gen.segs[i].text # <<EACUTE>>)
    => ExpandedAsExpected

\* C9: an error raised while the body of an f-string is processed carries
\* the line and column of the f-string token.
FStringErrorAtToken ==
    (gen.fam = "fstring" /\ program.k = "err") =>
        (program.err.line = 1 /\ program.err.column = Len(gen.pre) + 1)

\* The measure of the line the lexer is about to start.
LineWidth == IndentScan(input, pos, 0)

\* tokenize stands at the start of a non-empty line narrower than the top of
\* the indent stack.
AtNarrowerLine ==
    /\ pc = "tokenize"
    /\ pos < Len(input)
    /\ column = 1
    /\ ~LineWidth.is_empty_line
    /\ LineWidth.spaces < Last(indent_stack)

Wider(w) == { i \in DOMAIN indent_stack : indent_stack[i] > w }
OnStack(w) == \E i \in DOMAIN indent_stack : indent_stack[i] = w

UnindentStep ==
    AtNarrowerLine =>
        /\ Len(tokens') >= Len(tokens) + Cardinality(Wider(LineWidth.spaces))
        /\ \A i \in 1..Cardinality(Wider(LineWidth.spaces)) :
               tokens'[Len(tokens) + i].token_type.k = "Dedent"
        /\ Len(tokens') > Len(tokens) + Cardinality(Wider(LineWidth.spaces)) =>
               tokens'[Len(tokens) + Cardinality(Wider(LineWidth.spaces)) + 1]
                   .token_type.k # "Dedent"
        /\ indent_stack' = SubSeq(indent_stack, 1,
                                  Len(indent_stack) - Cardinality(Wider(LineWidth.spaces)))
        /\ OnStack(LineWidth.spaces) =>
               /\ Last(indent_stack') = LineWidth.spaces
               /\ lexres' # "err"
        /\ ~OnStack(LineWidth.spaces) =>
               /\ lexres' = "err"
               /\ lexerr'.message = UnindentMsg
               /\ pc' = "exit"
               /\ program' = NoResult

ExampleStep ==
    (gen.fam = "text" /\ gen.text = UnindentExample) =>
        /\ pc' # "parse"
        /\ (pc = "tokenize" /\ pc' = "exit") =>
               (lexres' = "err" /\ lexerr'.message = UnindentMsg)

\* C10: at a non-empty line narrower than the top of the indent stack the
\* lexer pops, with one Dedent each, the levels wider than the line, and
\* goes on iff the line's width is the new top; otherwise tokenize returns
\* the error "Unindent does not match any outer indentation level" and no
\* tokens.  The text with else: indented by one space is such an error.
UnindentChecked == [][UnindentStep /\ ExampleStep]_vars

\* tokenize rejected the example at its third line after one Dedent.
UnindentRejected ==
    /\ gen.fam = "text"
    /\ gen.text = UnindentExample
    /\ pc = "exit"
    /\ lexres = "err"
    /\ lexerr = LexerError(UnindentMsg, 3, 1)
    /\ tokens[Len(tokens)].token_type.k = "Dedent"


\* The 1-based line and column of the character at offset off of the text:
\* lines are separated by newline characters.
LineOf(off) == 1 + Cardinality({ i \in 1..off : input[i] = NL })
ColumnOf(off) ==
    off + 1 - (CHOOSE b \in 0..off :
                  /\ b = 0 \/ input[b] = NL
                  /\ \A i \in (b + 1)..off : input[i] # NL)

\* The offset of the first character of the token the coming iteration of
\* tokenize reads: past the indentation where a non-empty line starts.
TokenStart ==
    IF column = 1 /\ ~LineWidth.is_empty_line THEN LineWidth.lookahead ELSE pos

Synthetic == { "Indent", "Dedent", "EOF" }

\* C11: every token tokenize emits for characters of the text (every token
\* but Indent, Dedent and EOF) carries the 1-based line and the 1-based
\* character column of its first character, on tab-indented lines and for
\* string literals that span lines as well.
TokenPositions ==
    [][(pc = "tokenize" /\ pos < Len(input)) =>
          \A i \in (Len(tokens) + 1)..Len(tokens') :
              tokens'[i].token_type.k \notin Synthetic =>
                  /\ tokens'[i].line = LineOf(TokenStart)
                  /\ tokens'[i].column = ColumnOf(TokenStart)]_vars

\* The same for the tokens that start on a line without a tab in its
\* indentation and end on the line they start on.
TabIndented(off) ==
    \E i \in 1..off :
        /\ input[i] = TAB
        /\ \A j \in (off - ColumnOf(off) + 2)..i : input[j] \in {SP, TAB}
TokenPositionsPlain ==
    [][(pc = "tokenize" /\ pos < Len(input) /\ ~TabIndented(TokenStart)) =>
          \A i \in (Len(tokens) + 1)..Len(tokens') :
              (/\ tokens'[i].token_type.k \notin Synthetic
               /\ tokens'[i].token_type.k \in {"Str", "FString"} =>
                      line' = LineOf(TokenStart)) =>
                  /\ tokens'[i].line = LineOf(TokenStart)
                  /\ tokens'[i].column = ColumnOf(TokenStart)]_vars

\* tokenize is over: it returned the tokens or an error.
Lexed == lexres # "none"

\* The tokens of an identifier text whose word is one token of class cls.
OneWordToken(cls) ==
    /\ lexres = "ok"
    /\ Len(tokens) = (IF gen.tail = <<"(">> THEN 3 ELSE 2)
    /\ tokens[1] = Token(cls, 1, 1)
    /\ gen.tail = <<"(">> => tokens[2] = Token(TT("LParen"), 1, Len(gen.word) + 1)
    /\ tokens[Len(tokens)] = Token(TT("EOF"), 1, Len(gen.word) + Len(gen.tail) + 1)

\* C12: a maximal run of alphanumerics and underscores that starts with a
\* letter or with _ is lexed as exactly one token: the keyword or Type token
\* of the table when the lexeme is in it, Ident of the whole lexeme when it
\* is not; _x is an Ident, and a lexeme starting with f is classified by
\* the same table as every other.
IdentifierLexed ==
    (/\ gen.fam = "ident"
     /\ gen.word[1] = "_" \/ is_alphabetic(gen.word[1])
     /\ Lexed) => OneWordToken(ClassifyIdent(gen.word))

\* The same for the lexemes that start with a letter.
IdentifierLexedLetter ==
    (gen.fam = "ident" /\ is_alphabetic(gen.word[1]) /\ Lexed) =>
        OneWordToken(ClassifyIdent(gen.word))

\* The trees of the definition texts: the parameter list (x: int), the body
\* this.v = x and the declaration of v.
XParams == << << <<"x">>, Type("Int") >> >>
SetV == Assignment(Get(This, <<"v">>), Identifier(<<"x">>))
VTree(is_public, is_mutable) ==
    Declaration(is_public, is_mutable, <<"v">>, Type("Int"), Literal("Int", <<"0">>))

\* class Box:\n    pub val v: int = 0\n    def init(x: int):\n        this.v = x\n
BoxGen ==
    [fam |-> "class", pub |-> FALSE,
     members |-> << [m |-> "var", pub |-> TRUE, mutable |-> FALSE],
                    [m |-> "def", pub |-> FALSE, name |-> INIT, ret |-> <<>>] >>]

\* The Program of one Class named Box with the members of the scenario.
BoxProgram(is_public) ==
    Program(<< Class(is_public, <<"B","o","x">>,
                 << ClassMember("Variable", VTree(TRUE, FALSE)),
                    ClassMember("Constructor",
                        FunctionDefinition(FALSE, INIT, XParams, Type("Void"),
                                           <<SetV>>)) >>) >>)

\* C13: the class Box text parses to one statement, a Class named Box that
\* is not public (its header carries no pub), with two members: the public
\* immutable Variable v of type Int initialised with Int(0), and the
\* Constructor init with one Int parameter and the body this.v = x.
BoxScenario ==
    (gen = BoxGen /\ Finished) =>
        (lexres = "ok" /\ program.k = "ok" /\ program.v = BoxProgram(FALSE))

\* The scenario as stated: the Class is public.
BoxScenarioPublic ==
    (gen = BoxGen /\ Finished) =>
        (lexres = "ok" /\ program.k = "ok" /\ program.v = BoxProgram(TRUE))

\* main holds the Program of the class Box text.
BoxParsed == gen = BoxGen /\ pc = "emit" /\ program.k = "ok"

\* The closing token of an opening bracket token.
Closer(k) ==
    CASE k = "LParen" -> "RParen" [] k = "LBracket" -> "RBracket" [] k = "LBrace" -> "RBrace"

\* Whether the brackets among toks[i..] close the openers of the stack open,
\* innermost first, and leave none of them open.
RECURSIVE Nested(_, _, _)
Nested(toks, i, open) ==
    IF i > Len(toks) THEN open = <<>>
    ELSE IF toks[i].token_type.k \in {"LParen", "LBracket", "LBrace"}
    THEN Nested(toks, i + 1, Append(open, toks[i].token_type.k))
    ELSE IF toks[i].token_type.k \in {"RParen", "RBracket", "RBrace"}
    THEN /\ open # <<>>
         /\ Closer(Last(open)) = toks[i].token_type.k
         /\ Nested(toks, i + 1, Front(open))
    ELSE Nested(toks, i + 1, open)

\* C14: whenever parse returns a Program, the parser stands at EOF with no
\* token before it left over, and every (, [ and { of the token stream is
\* matched by its closer, properly nested.
BracketBalance ==
    program.k = "ok" =>
        /\ program.p = Len(tokens) - 1
        /\ tokens[Len(tokens)].token_type.k = "EOF"
        /\ Nested(tokens, 1, <<>>)

\* main holds the Program of a text with a bracket pair inside another.
NestedBracketsParsed ==
    /\ gen.fam = "bracket"
    /\ pc = "emit"
    /\ program.k = "ok"
    /\ Count("LParen", Len(tokens)) >= 1
    /\ Count("LBracket", Len(tokens)) >= 1

\* A non-empty run of decimal digits, and whether its value fits in i64.
Digits(s) == s # <<>> /\ \A i \in 1..Len(s) : s[i] \in AsciiDigit
FitsI64(s) == NumeralLeq(StripZeros(s), I64Max)
After(t, k) == SubSeq(t, k + 1, Len(t))

\* A..B: two digit runs that fit in i64 around two dots lex as Int, Range, Int.
RangeOfInts(t) ==
    \A k \in 1..(Len(t) - 3) :
        (/\ Digits(SubSeq(t, 1, k)) /\ FitsI64(SubSeq(t, 1, k))
         /\ t[k + 1] = "." /\ t[k + 2] = "."
         /\ Digits(After(t, k + 2)) /\ FitsI64(After(t, k + 2))) =>
            /\ lexres = "ok"
            /\ tokens = << Token(TTv("Int", StripZeros(SubSeq(t, 1, k))), 1, 1),
                           Token(TT("Range"), 1, k + 1),
                           Token(TTv("Int", StripZeros(After(t, k + 2))), 1, k + 3),
                           Token(TT("EOF"), 1, Len(t) + 1) >>

\* A digit run with exactly one dot, no dot after it, is one Float token.
OneDotFloat(t) ==
    \A k \in 1..(Len(t) - 1) :
        (/\ Digits(SubSeq(t, 1, k)) /\ t[k + 1] = "."
         /\ After(t, k + 1) = <<>> \/ Digits(After(t, k + 1))) =>
            /\ lexres = "ok"
            /\ Len(tokens) = 2
            /\ tokens[1].token_type.k = "Float"
            /\ tokens[1].line = 1 /\ tokens[1].column = 1
            /\ tokens[2] = Token(TT("EOF"), 1, Len(t) + 1)

\* A second dot in the number that does not start .. is an error.
SecondDotError(t) ==
    \A j, k \in 1..Len(t) :
        (/\ j + 1 < k
         /\ t[j] = "." /\ t[k] = "."
         /\ \A i \in 1..(k - 1) : i # j => t[i] \in AsciiDigit
         /\ k = Len(t) \/ t[k + 1] # ".") =>
            /\ lexres = "err"
            /\ lexerr = LexerError("Invalid number: multiple decimal points", 1, k)

\* A digit run alone is an Int when it fits in i64 and an error when not.
IntOrOverflow(t) ==
    Digits(t) =>
        IF FitsI64(t)
        THEN /\ lexres = "ok"
             /\ tokens = << Token(TTv("Int", StripZeros(t)), 1, 1),
                            Token(TT("EOF"), 1, Len(t) + 1) >>
        ELSE lexres = "err" /\ lexerr = LexerError("Invalid integer", 1, 1)

\* C15: a digit run followed by .. ends before the dots, so A..B lexes as
\* Int(A), Range, Int(B); a digit run with exactly one dot that no dot
\* follows is one Float token; a second dot in a number that does not start
\* .. is the error "multiple decimal points"; an integer that does not fit
\* in i64 is an error, not a wrapped value.
NumberScanned ==
    (gen.fam = "num" /\ Lexed) =>
        /\ RangeOfInts(gen.text)
        /\ OneDotFloat(gen.text)
        /\ SecondDotError(gen.text)
        /\ IntOrOverflow(gen.text)

\* tokenize returned Int, Range, Int for a number text.
RangeLexed ==
    /\ gen.fam = "num"
    /\ lexres = "ok"
    /\ Len(tokens) = 4
    /\ tokens[2].token_type.k = "Range"

\* tokenize rejected a numeral one above i64::MAX.
OverflowRejected == gen.fam = "num" /\ gen.text = I64MaxPlus1 /\ lexres = "err"

\* main holds the Program of a definition text: one statement.
DefinitionParsed ==
    /\ lexres = "ok"
    /\ program.k = "ok"
    /\ Len(program.v.statements) = 1

\* The class of a class text and the function of a function text.
TheClass == program.v.statements[1]
TheFunction == program.v.statements[1]

\* The member a class member of the text is stored as.
MemberKind(m) ==
    IF m.m = "var" THEN "Variable"
    ELSE IF m.name = <<"i","n","i","t">> THEN "Constructor" ELSE "Method"
StatementKind(m) == IF m.m = "var" THEN "Declaration" ELSE "FunctionDefinition"

\* C16: in a parsed Class a member introduced by def is a Constructor if
\* and only if its name is init and a Method otherwise, a member introduced
\* by val or var is a Variable, and a def init at top level is a plain
\* FunctionDefinition statement.
ConstructorReclassified ==
    /\ (gen.fam = "class" /\ Finished) =>
          /\ DefinitionParsed
          /\ TheClass.s = "Class"
          /\ Len(TheClass.members) = Len(gen.members)
          /\ \A i \in 1..Len(gen.members) :
                /\ TheClass.members[i].m = MemberKind(gen.members[i])
                /\ TheClass.members[i].stmt.s = StatementKind(gen.members[i])
                /\ gen.members[i].m = "def" =>
                       TheClass.members[i].stmt.name = gen.members[i].name
    /\ (gen.fam = "def" /\ Finished) =>
          /\ DefinitionParsed
          /\ TheFunction.s = "FunctionDefinition"
          /\ TheFunction.name = gen.fn.name

\* main holds a Class with a Constructor and a Method.
ConstructorAndMethodParsed ==
    /\ gen.fam = "class"
    /\ pc = "emit"
    /\ program.k = "ok"
    /\ \E i, j \in 1..Len(TheClass.members) :
          /\ TheClass.members[i].m = "Constructor"
          /\ TheClass.members[j].m = "Method"

\* The type a return clause of the definition texts denotes.
ReturnTypeOf(ret) ==
    IF ret = <<>> THEN Type("Void")
    ELSE IF ret = <<SP,"-",">",SP,"i","n","t">> THEN Type("Int")
    ELSE TypeList(Type("Int"))

\* C17: every FunctionDefinition (top-level, public, method or constructor)
\* parsed from a header without -> T has return_type Void, and one parsed
\* from a header with -> T has the parsed type T as return_type.
ReturnTypeDefault ==
    /\ (gen.fam = "def" /\ Finished) =>
          /\ DefinitionParsed
          /\ TheFunction.s = "FunctionDefinition"
          /\ TheFunction.is_public = gen.fn.pub
          /\ TheFunction.return_type = ReturnTypeOf(gen.fn.ret)
    /\ (gen.fam = "class" /\ Finished) =>
          /\ DefinitionParsed
          /\ Len(TheClass.members) = Len(gen.members)
          /\ \A i \in 1..Len(gen.members) :
                gen.members[i].m = "def" =>
                    /\ TheClass.members[i].stmt.s = "FunctionDefinition"
                    /\ TheClass.members[i].stmt.is_public = gen.members[i].pub
                    /\ TheClass.members[i].stmt.return_type =
                           ReturnTypeOf(gen.members[i].ret)

\* main holds a Class with a function without a return clause and one that
\* returns list[int].
BothReturnTypesParsed ==
    /\ gen.fam = "class"
    /\ pc = "emit"
    /\ program.k = "ok"
    /\ \E i, j \in 1..Len(TheClass.members) :
          /\ TheClass.members[i].m \in {"Constructor", "Method"}
          /\ TheClass.members[j].m \in {"Constructor", "Method"}
          /\ gen.members[i].ret = <<>>
          /\ TheClass.members[i].stmt.return_type = Type("Void")
          /\ TheClass.members[j].stmt.return_type = TypeList(Type("Int"))

\* One step of main keeps the order of the stages: tokenize runs on a file
\* that was read, parse on the tokens tokenize returned, the serializer or
\* code generator on the Program parse returned; a stage that returned Err
\* is the last one, and the process ends with exit code 1.
StageOrder ==
    /\ pc' = "tokenize" => readres' = "ok"
    /\ pc' = "parse" => (readres' = "ok" /\ lexres' = "ok")
    /\ pc' = "emit" => (readres' = "ok" /\ lexres' = "ok" /\ program'.k = "ok")
    /\ lexres' # lexres => pc = "tokenize"
    /\ program' # program => (pc = "parse" /\ lexres = "ok")
    /\ emitres' # emitres => (pc = "emit" /\ program.k = "ok")
    /\ pc = "exit" => pc' = "exit"

\* What the finished process left: after an Err of a stage no later stage
\* has run and the exit code is 1; the exit code is 0 only when every stage
\* returned Ok.
FailFast ==
    /\ readres = "err" =>
          (pc = "exit" /\ exit_code = 1 /\ lexres = "none" /\ tokens = <<>>
           /\ program = NoResult /\ emitres = "none")
    /\ lexres = "err" =>
          (pc = "exit" /\ exit_code = 1 /\ program = NoResult /\ emitres = "none")
    /\ program.k = "err" => (pc = "exit" /\ exit_code = 1 /\ emitres = "none")
    /\ emitres = "err" => (pc = "exit" /\ exit_code = 1)
    /\ exit_code = 0 =>
          (pc = "exit" /\ readres = "ok" /\ lexres = "ok" /\ program.k = "ok"
           /\ emitres = "ok")
    /\ emitres = "ok" => exit_code = 0

\* C18: the parser is invoked only after tokenize returned Ok and the
\* serializer or code generator only after parse returned Ok; a file-read,
\* lexical, syntactic or code-generation failure ends the process with exit
\* code 1 without any later stage, and exit code 0 is reached only when
\* every stage succeeded.
FailFastPipeline == []FailFast /\ [][StageOrder]_vars

\* The process ended with exit code 1 after the parser returned an error.
ParseFailureExit ==
    /\ pc = "exit"
    /\ lexres = "ok"
    /\ program.k = "err"
    /\ emitres = "none"
    /\ exit_code = 1

\* The indent stack is not empty, its bottom is 0 and it increases strictly
\* from bottom to top; no unwrap of its top has found it empty.
StackShape ==
    /\ Len(indent_stack) >= 1
    /\ indent_stack[1] = 0
    /\ \A i \in 1..(Len(indent_stack) - 1) : indent_stack[i] < indent_stack[i + 1]
    /\ lexres # "panic"

\* A step changes the stack by one push of a width above the old top, or by
\* pops that leave a prefix of it with the bottom 0 in place.
PushOrPop ==
    /\ Len(indent_stack') > Len(indent_stack) =>
          /\ Len(indent_stack') = Len(indent_stack) + 1
          /\ SubSeq(indent_stack', 1, Len(indent_stack)) = indent_stack
          /\ Last(indent_stack') > Last(indent_stack)
    /\ Len(indent_stack') <= Len(indent_stack) =>
          /\ Len(indent_stack') >= 1
          /\ indent_stack' = SubSeq(indent_stack, 1, Len(indent_stack'))

\* C19: at every point of tokenize the indent stack is non-empty, has 0 at
\* its bottom and increases strictly from bottom to top; a push happens
\* only with a width greater than the top, and the bottom 0 is never popped.
IndentStackInvariant == []StackShape /\ [][PushOrPop]_vars

\* tokenize has pushed two levels and popped one of them.
LevelPopped ==
    /\ pc = "tokenize"
    /\ Len(indent_stack) = 2
    /\ Count("Indent", Len(tokens)) = 2
    /\ Count("Dedent", Len(tokens)) = 1

\* The number of characters before the line of offset off.
LineBeginOf(off) == off + 1 - ColumnOf(off)

\* The line-start scan of the line tokenize stands in.
BlankScan == IndentScan(input, LineBeginOf(pos), 0)

\* The offset of the character that ends a blank line: the newline, or the
\* carriage return when no newline follows it.
BlankEnd ==
    IF /\ input[BlankScan.lookahead + 1] = CR
       /\ BlankScan.lookahead + 1 < Len(input)
       /\ input[BlankScan.lookahead + 2] = NL
    THEN BlankScan.lookahead + 1
    ELSE BlankScan.lookahead

\* tokenize stands in a line of spaces and tabs ended by a newline or a
\* carriage return, not past the character that ends it.
InBlankLine ==
    /\ pc = "tokenize"
    /\ pos < Len(input)
    /\ BlankScan.is_empty_line
    /\ pos <= BlankEnd

\* C20: when the line-start scan finds a line of spaces and tabs ended by a
\* newline or a carriage return, the indent stack stays as it is and no
\* Indent or Dedent is emitted for the line, whatever its width; the only
\* token the line contributes is the Newline of its newline character.
BlankLineFrame ==
    [][InBlankLine =>
          /\ indent_stack' = indent_stack
          /\ lexres' = "none"
          /\ tokens' = IF input[pos + 1] = NL
                        THEN Append(tokens, Token(TT("Newline"), line, column))
                        ELSE tokens]_vars

\* tokenize has passed a blank line of width 1 below a block of width 2.
BlankLinePassed ==
    /\ gen.fam = "ws"
    /\ pc = "tokenize"
    /\ indent_stack = <<0, 2>>
    /\ line = 3
    /\ column = 1
    /\ Len(tokens) = 4
    /\ tokens[4] = Token(TT("Newline"), 2, 2)

\* A sub-parser that succeeds leaves the cursor past where it started.
Consumes(r, p) == r.k = "ok" => r.p > p

\* The sub-parsers that the loops of the parser call once in every
\* iteration, started at every token of the sequence.
SubParsersConsume ==
    \A p \in 0..(Len(tokens) - 1) :
       /\ Consumes(parse_statement(tokens, p), p)
       /\ Consumes(parse_expression(tokens, p), p)
       /\ Consumes(parse_expression_primary(tokens, p), p)
       /\ Consumes(parse_block(tokens, p), p)
       /\ Consumes(parse_class_block(tokens, p), p)
       /\ Consumes(parse_type(tokens, p), p)

\* The bodies of the f-string tokens of a token sequence.
FStringBodies(toks) ==
    { toks[i].token_type.v : i \in { j \in 1..Len(toks) : toks[j].token_type.k = "FString" } }

\* The brace scan started at a '{' of body s ends past it, and the text it
\* hands to the nested lexer is shorter than s.
BraceScanShorter(s) ==
    \A i \in 0..(Len(s) - 1) :
       s[i + 1] = "{" =>
          LET m == MatchBrace(s, i + 1, 1) IN
             /\ m.i > i
             /\ m.i <= Len(s)
             /\ (m.brace_count = 0 /\ str_slice(s, i + 1, m.i - 1).ok) =>
                    Len(str_slice(s, i + 1, m.i - 1).v) < Len(s)

\* The texts of the placeholders at the '{' of body s.
PlaceholderTexts(s) ==
    { str_slice(s, i + 1, MatchBrace(s, i + 1, 1).i - 1).v :
        i \in { j \in 0..(Len(s) - 1) :
                  /\ s[j + 1] = "{"
                  /\ MatchBrace(s, j + 1, 1).brace_count = 0
                  /\ str_slice(s, j + 1, MatchBrace(s, j + 1, 1).i - 1).ok } }

\* The f-strings of the token sequence and the f-strings in their
\* placeholders recurse on shorter texts.
NestedShorter ==
    \A s \in FStringBodies(tokens) :
       /\ BraceScanShorter(s)
       /\ \A e \in PlaceholderTexts(s) :
             tokenize(e).st = "ok" =>
                \A s2 \in FStringBodies(tokenize(e).tokens) : BraceScanShorter(s2)

\* Once tokenize has returned Ok, every parser loop makes progress on its
\* tokens.
ParserProgress == lexres = "ok" => SubParsersConsume /\ NestedShorter

\* The iteration of the main loop of tokenize that starts in this state
\* returns an error or ends with pos greater than it is.
IterationAdvances ==
    (pc = "tokenize" /\ pos < Len(input)) =>
        (LexIter(Cur).st = "err" \/ LexIter(Cur).pos > pos)

\* A step of tokenize in its main loop ends main with the error or leaves
\* pos greater than it was.
LexProgress ==
    (pc = "tokenize" /\ pos < Len(input)) =>
        (pos' > pos \/ (pc' = "exit" /\ lexres' = "err"))

\* C21: every iteration of the main loop of tokenize returns an error or
\* strictly increases pos; on the tokens of a successful tokenize every
\* sub-parser that a parser loop calls consumes at least one token or
\* returns an error, the brace scan of an f-string body moves forward and
\* hands the nested lexer a strictly shorter text; and the run of main on
\* every input reaches its exit.
Termination ==
    /\ []IterationAdvances
    /\ [][LexProgress]_vars
    /\ []ParserProgress
    /\ <>(pc = "exit")

\* main has lexed and parsed two lines, one an f-string with an f-string
\* in its placeholder and one with a comment, and has reached its exit.
LoopsTerminated ==
    /\ gen.fam = "loops"
    /\ pc = "exit"
    /\ program.k = "ok"
    /\ Len(gen.units) >= 2
    /\ gen.units[1] = <<"#", "c">>
    /\ \E s \in FStringBodies(tokens) :
          \E e \in PlaceholderTexts(s) : FStringBodies(tokenize(e).tokens) # {}

\* The token sequence has one EOF token, its last element.
EndsInOneEOF(toks) ==
    /\ toks # <<>>
    /\ \A i \in 1..Len(toks) : toks[i].token_type.k = "EOF" <=> i = Len(toks)

\* The cursor of result r, of a parser started at cursor p of toks, is not
\* before p and not past the EOF token, and an error of r is at a position
\* of the text.
InBounds(r, p, toks) ==
    /\ r.p >= p
    /\ r.p < Len(toks)
    /\ r.k = "err" => r.err.line >= 1 /\ r.err.column >= 1

\* The nested parser of every placeholder of the f-string tokens stays on
\* the tokens of its nested lexer.
NestedInBounds ==
    \A s \in FStringBodies(tokens) :
       \A e \in PlaceholderTexts(s) :
          tokenize(e).st = "ok" =>
             /\ EndsInOneEOF(tokenize(e).tokens)
             /\ InBounds(parse_expression(tokenize(e).tokens, 0), 0, tokenize(e).tokens)

\* C22: the tokens of a successful tokenize end in their one EOF token; the
\* cursor that parse and every parsing function started at a token of the
\* sequence return is not before where it started and is less than
\* tokens.len(), so current_token is a token of the sequence, and no
\* ParserError has line 0 or column 0; the same holds of the nested parser
\* of an f-string placeholder.
ParserCursorBound ==
    lexres = "ok" =>
       /\ EndsInOneEOF(tokens)
       /\ pc \in {"emit", "exit"} => InBounds(program, 0, tokens)
       /\ NestedInBounds
       /\ \A p \in 0..(Len(tokens) - 1) :
             /\ current_token(tokens, p) = tokens[p + 1]
             /\ InBounds(parse_statement(tokens, p), p, tokens)
             /\ InBounds(parse_expression(tokens, p), p, tokens)
             /\ InBounds(parse_expression_primary(tokens, p), p, tokens)
             /\ InBounds(parse_block(tokens, p), p, tokens)
             /\ InBounds(parse_class_block(tokens, p), p, tokens)
             /\ InBounds(parse_type(tokens, p), p, tokens)

\* parse has failed with its cursor on the EOF token of a text of one
\* line and reports the position of that token.
ErrorAtEOF ==
    /\ gen.fam = "loops"
    /\ pc = "exit"
    /\ program.k = "err"
    /\ program.p = Len(tokens) - 1
    /\ program.p > 0
    /\ program.err.line = tokens[Len(tokens)].line
    /\ program.err.column = tokens[Len(tokens)].column
    /\ program.err.line = 2

\* The outcome of tokenize and parse in main: the result of parse, or the
\* LexerError in the shape of a parser error.
MainOutcome ==
    IF lexres = "ok" THEN program
    ELSE IF lexres = "err" THEN ErrAt(lexerr.message, lexerr.line, lexerr.column, 0)
    ELSE PanicR(0)

\* The same Program, or a failure in both cases.
SameOutcome(a, b) ==
    IF a.k = "ok" THEN b.k = "ok" /\ a.v = b.v ELSE b.k # "ok"

\* The text does not end in a newline.
NoFinalNewline == input # <<>> /\ input[Len(input)] # NL

\* C23: a source whose last character is not a newline lexes and parses to
\* the same outcome as the source followed by one newline: the same Program,
\* or an error in both cases.
FinalNewlineInsensitive ==
    (Finished /\ NoFinalNewline) =>
        SameOutcome(MainOutcome, compile(input \o <<NL>>))

\* The result of a fresh parser's parse_expression on the tokens of text e.
ParsesTo(e) == parse_expression(tokenize(e).tokens, 0)

\* Text e lexes and parse_expression takes all of its tokens: the cursor it
\* returns is on the EOF token.
WholeExpression(e) ==
    /\ tokenize(e).st = "ok"
    /\ ParsesTo(e).k = "ok"
    /\ ParsesTo(e).p = Len(tokenize(e).tokens) - 1

\* C24: when text e parses to expression E, the f-string whose placeholder
\* is e with spaces before it and after it parses, and its placeholder
\* contributes Call(Identifier("to_string"), [E]), as that of {e} does.
PlaceholderSpacesIgnored ==
    (Finished /\ gen.fam = "ph" /\ WholeExpression(gen.body)) =>
        /\ lexres = "ok"
        /\ program.k = "ok"
        /\ program.v = Program(<<ExpressionStmt(ToStringCall(ParsesTo(gen.body).v))>>)

\* parse_expression of a fresh parser succeeds on text e and leaves tokens
\* before the EOF token.
Leftover(e) ==
    /\ tokenize(e).st = "ok"
    /\ ParsesTo(e).k = "ok"
    /\ ParsesTo(e).p < Len(tokenize(e).tokens) - 1

\* C25: when the nested parse_expression of a placeholder succeeds its
\* cursor is on the nested EOF token: an f-string with a placeholder whose
\* text is an expression followed by further tokens is rejected with a
\* ParserError.
OnePlaceholderOneExpression ==
    (Finished /\ gen.fam = "ph" /\ lexres = "ok") =>
        \A s \in FStringBodies(tokens) :
           \A e \in PlaceholderTexts(s) :
              Leftover(e) => program.k = "err"

====
